---- MODULE Spec2Model ----
(***************************************************************************)
(* db_interact_service: the credential check (decorators.py), the request  *)
(* handlers (routes.py) and the store functions (models.py, utils.py) as a *)
(* state machine over the two collections of the operational database.    *)
(*                                                                         *)
(* A request lives in a slot: token_required runs when it starts, then    *)
(* its handler runs one store command per step, then Flask's teardown     *)
(* runs close_db.  The specifications serve one request at a time, but    *)
(* for SpecConc, where the store commands of two requests interleave.      *)
(***************************************************************************)
EXTENDS Integers, Sequences, FiniteSets, TLC

VARIABLES children, activities, nAct, slots

vars == <<children, activities, nAct, slots>>

(***************************************************************************)
(* Bounds of the model.                                                    *)
(***************************************************************************)
MaxChildren == 2
MaxActivities == 2

(***************************************************************************)
(* Python values.  None is Python's None where a string is expected; a     *)
(* dict is a function from its keys; a list is a sequence.                 *)
(***************************************************************************)
None == "<None>"
EmptyDict == <<>>

Has(d, k) == k \in DOMAIN d
\* dict.get(k) for a string-valued key
Get(d, k) == IF Has(d, k) THEN d[k] ELSE None
\* `not v` for a string (or None)
FalsyStr(v) == v = None \/ v = ""
\* `not d.get(k)` for a key holding a string
NotStr(d, k) == ~Has(d, k) \/ FalsyStr(d[k])
\* `not d` for a dict (an absent body, None, behaves as the empty dict)
FalsyDict(d) == DOMAIN d = {}

(***************************************************************************)
(* bson.ObjectId.  The exchange form of an id is a string; ObjectId(s)    *)
(* parses it into the store's reference (here a number) or raises         *)
(* InvalidId, and str(o) renders a reference back.  The table lists the   *)
(* well-formed id strings of the model: two user identities, the ids the  *)
(* store generates for children and those it generates for activities.    *)
(***************************************************************************)
UserHex == <<"a1", "a2">>
ChildHex == <<"c1", "c2", "c3", "c4">>
ActHex == <<"e1", "e2", "e3", "e4">>
HexTable == UserHex \o ChildHex \o ActHex

ObjectIdValid(s) == \E i \in DOMAIN HexTable : HexTable[i] = s
ObjectId(s) == CHOOSE i \in DOMAIN HexTable : HexTable[i] = s
str(o) == HexTable[o]

\* the k-th id the store generates in each collection
ChildOid(k) == Len(UserHex) + k
ActOid(k) == Len(UserHex) + Len(ChildHex) + k

\* datetime.utcnow(): a logical clock, the number of inserts made so far
utcnow == Cardinality(DOMAIN children) + nAct

\* datetime.timedelta(days=1) in ticks of that clock
OneDay == 2

\* datetime.strptime(s, '%Y-%m-%d'): midnight of the day, or ValueError
DateHex == <<"2025-04-21", "2025-04-22", "2025-04-23">>
DateValid(s) == \E i \in DOMAIN DateHex : DateHex[i] = s
strptime(s) == (CHOOSE i \in DOMAIN DateHex : DateHex[i] = s) * OneDay - OneDay

\* membership in a list
InList(x, l) == \E i \in DOMAIN l : l[i] = x

(***************************************************************************)
(* The network between the service and MongoDB during one step:           *)
(*   up     the server answers                                             *)
(*   down   the server is unreachable (connecting fails; a command on an   *)
(*          open client raises a ConnectionFailure)                        *)
(*   drop   connecting works, the command then raises a ConnectionFailure  *)
(*   operr  the command raises OperationFailure                            *)
(***************************************************************************)
Net == {"up", "down", "drop", "operr"}

CommandExc(net) ==
    CASE net = "up" -> "none"
      [] net = "operr" -> "OperationFailure"
      [] OTHER -> "ConnectionFailure"

(***************************************************************************)
(* models.get_db on the request context g = [db, client].                  *)
(* db: "unset" (not in g), "ok" (a database object), "failed" (None).      *)
(***************************************************************************)
get_db(g, net) ==
    IF g.db = "unset"
    THEN IF net = "down"
         THEN [exc |-> "ConnectionFailure", db |-> "failed", client |-> TRUE]
         ELSE [exc |-> "none", db |-> "ok", client |-> TRUE]
    ELSE IF g.db = "failed"
         THEN [exc |-> "ConnectionFailure", db |-> "failed", client |-> g.client]
         ELSE [exc |-> "none", db |-> "ok", client |-> g.client]

(***************************************************************************)
(* Credentials.  kind says what jwt.decode makes of the header:           *)
(*   missing   no Authorization header                                     *)
(*   nobearer  a header that does not start with "Bearer "                 *)
(*   malformed / badsig / expired   jwt.decode raises                      *)
(*   ok        decodes to the payload {type, sub, role}                    *)
(***************************************************************************)
Tok(k, t, s, r) == [kind |-> k, type |-> t, sub |-> s, role |-> r]

UndecodedTokens ==
    { Tok(k, None, None, None) :
        k \in {"missing", "nobearer", "malformed", "badsig", "expired"} }

RejectedPayloads ==
    { Tok("ok", "refresh", "a1", "parent"),
      Tok("ok", None, "a1", "parent"),
      Tok("ok", "access", None, "parent"),
      Tok("ok", "access", "a1", None) }

AcceptedTokens ==
    { Tok("ok", "access", "a1", "parent"),
      Tok("ok", "access", "a1", "teacher"),
      Tok("ok", "access", "a2", "teacher"),
      Tok("ok", "access", "a1", "admin"),
      Tok("ok", "access", "zz", "parent"),
      Tok("ok", "access", "", "parent"),
      Tok("ok", "access", "a2", "") }

Tokens == UndecodedTokens \cup RejectedPayloads \cup AcceptedTokens

Unset == "<unset>"

\* a mutant of token_required: the type claim is not looked at
token_required_any_type(tok) ==
    IF tok.kind # "ok" \/ tok.sub = None \/ tok.role = None
    THEN [status |-> 401, uid |-> Unset, role |-> Unset]
    ELSE [status |-> 0, uid |-> tok.sub, role |-> tok.role]

\* decorators.token_required: status 0 means the wrapped handler runs
token_required(tok) ==
    IF tok.kind \in {"missing", "nobearer"}
    THEN [status |-> 401, uid |-> Unset, role |-> Unset]
    ELSE IF tok.kind \in {"malformed", "badsig", "expired"}
    THEN [status |-> 401, uid |-> Unset, role |-> Unset]
    ELSE IF tok.type # "access"
    THEN [status |-> 401, uid |-> Unset, role |-> Unset]
    ELSE IF tok.sub = None \/ tok.role = None
    THEN [status |-> 401, uid |-> tok.sub, role |-> tok.role]
    ELSE [status |-> 0, uid |-> tok.sub, role |-> tok.role]

(***************************************************************************)
(* utils.serialize_doc: every reference of a document rendered to its     *)
(* string form.                                                            *)
(***************************************************************************)
serialize_doc(doc) ==
    [k \in DOMAIN doc |->
        IF k \in {"_id", "child_id", "logged_by"} THEN str(doc[k])
        ELSE IF k \in {"parent_ids", "supervisor_ids"}
             THEN [i \in DOMAIN doc[k] |-> str(doc[k][i])]
             ELSE doc[k]]

(***************************************************************************)
(* Request slots.                                                          *)
(***************************************************************************)
Ops == {"create-child", "update-child", "link-supervisor", "get-child",
        "list-children", "create-activity", "list-activities",
        "delete-activity"}

NoTok == Tok("-", None, None, None)

\* the query string of list-activities
Query(c, t, s, e) == [child_id |-> c, type |-> t, start_date |-> s, end_date |-> e]
NoQuery == Query(None, None, None, None)

IdleSlot ==
    [pc |-> "idle", op |-> "-", tok |-> NoTok, uid |-> Unset, role |-> Unset,
     db |-> "unset", client |-> FALSE, id |-> None, data |-> EmptyDict,
     q |-> NoQuery, loc |-> None, status |-> 0, body |-> EmptyDict]

\* the response leaves; what is left of the request is Flask's teardown
Respond(s, g, status, body) ==
    [s EXCEPT !.pc = "teardown", !.db = g.db, !.client = g.client,
              !.status = status, !.body = body]

G(s) == [db |-> s.db, client |-> s.client]

Msg(m) == [message |-> m]

(***************************************************************************)
(* Timestamps as the store orders them.  A created_at the service sets is  *)
(* a date; one a caller sends in a JSON body is a string.  BSON orders     *)
(* every string before every date, and a range query on dates matches      *)
(* dates only.                                                             *)
(***************************************************************************)
DateTime(n) == [kind |-> "date", v |-> n]
JsonTime(n) == [kind |-> "str", v |-> n]

TimeGE(a, b) ==
    \/ a.kind = "date" /\ b.kind = "str"
    \/ a.kind = b.kind /\ a.v >= b.v

\* an optional datetime argument
NoDate == [has |-> FALSE, v |-> 0]
SomeDate(n) == [has |-> TRUE, v |-> n]

\* a mutant of create_child_record: notes has no default
create_child_record_no_default(coll, child_data, parent_id, g, net) ==
    LET c == get_db(g, net)
        cg == [db |-> c.db, client |-> c.client]
        new_id == ChildOid(Cardinality(DOMAIN coll) + 1)
        new_child ==
            [k \in {"_id", "name", "birthday", "group", "allergies", "notes",
                    "parent_ids", "supervisor_ids", "created_at"} |->
               CASE k = "_id" -> new_id
                 [] k = "parent_ids" -> <<ObjectId(parent_id)>>
                 [] k = "supervisor_ids" -> <<>>
                 [] k = "created_at" -> DateTime(utcnow)
                 [] k = "allergies" ->
                        IF Has(child_data, "allergies")
                        THEN child_data["allergies"] ELSE <<>>
                 [] OTHER -> Get(child_data, k)]
        ok == /\ c.exc = "none" /\ ObjectIdValid(parent_id)
              /\ ~FalsyStr(new_child["name"]) /\ ~FalsyStr(new_child["birthday"])
              /\ CommandExc(net) = "none"
    IN  IF ok
        THEN [exc |-> "none", ret |-> str(new_id), g |-> cg,
              coll |-> [o \in DOMAIN coll \cup {new_id} |->
                           IF o = new_id THEN new_child ELSE coll[o]]]
        ELSE [exc |-> IF c.exc # "none" THEN c.exc
                      ELSE IF CommandExc(net) = "OperationFailure"
                              /\ ObjectIdValid(parent_id)
                              /\ ~FalsyStr(new_child["name"])
                              /\ ~FalsyStr(new_child["birthday"])
                      THEN "OperationFailure" ELSE "ValueError",
              ret |-> None, g |-> cg, coll |-> coll]

(***************************************************************************)
(* models.create_child_record                                              *)
(***************************************************************************)
create_child_record(coll, child_data, parent_id, g, net) ==
    LET c == get_db(g, net)
        new_id == ChildOid(Cardinality(DOMAIN coll) + 1)
        new_child ==
            [k \in {"_id", "name", "birthday", "group", "allergies", "notes",
                    "parent_ids", "supervisor_ids", "created_at"} |->
               CASE k = "_id" -> new_id
                 [] k = "name" -> Get(child_data, "name")
                 [] k = "birthday" -> Get(child_data, "birthday")
                 [] k = "group" -> Get(child_data, "group")
                 [] k = "allergies" ->
                        IF Has(child_data, "allergies")
                        THEN child_data["allergies"] ELSE <<>>
                 [] k = "notes" ->
                        IF Has(child_data, "notes")
                        THEN child_data["notes"] ELSE ""
                 [] k = "parent_ids" -> <<ObjectId(parent_id)>>
                 [] k = "supervisor_ids" -> <<>>
                 [] k = "created_at" -> DateTime(utcnow)]
        raise(e) == [exc |-> e, ret |-> None, g |-> [db |-> c.db, client |-> c.client],
                     coll |-> coll]
    IN  IF c.exc # "none" THEN raise(c.exc)
        ELSE IF ~ObjectIdValid(parent_id) THEN raise("ValueError")
        ELSE IF FalsyStr(new_child["name"]) \/ FalsyStr(new_child["birthday"])
        THEN raise("ValueError")
        ELSE IF CommandExc(net) = "OperationFailure" THEN raise("OperationFailure")
        ELSE IF CommandExc(net) # "none" THEN raise("ValueError")
        ELSE [exc |-> "none", ret |-> str(new_id),
              g |-> [db |-> c.db, client |-> c.client],
              coll |-> [o \in DOMAIN coll \cup {new_id} |->
                           IF o = new_id THEN new_child ELSE coll[o]]]

(***************************************************************************)
(* models.get_child_by_id (the empty dict stands for None)                 *)
(***************************************************************************)
get_child_by_id(coll, child_id, g, net) ==
    LET c == get_db(g, net)
        cg == [db |-> c.db, client |-> c.client]
    IN  IF c.exc # "none" THEN [exc |-> c.exc, ret |-> EmptyDict, g |-> cg]
        ELSE IF ~ObjectIdValid(child_id) THEN [exc |-> "none", ret |-> EmptyDict, g |-> cg]
        ELSE IF CommandExc(net) # "none" THEN [exc |-> "none", ret |-> EmptyDict, g |-> cg]
        ELSE IF ObjectId(child_id) \in DOMAIN coll
             THEN [exc |-> "none", ret |-> serialize_doc(coll[ObjectId(child_id)]), g |-> cg]
             ELSE [exc |-> "none", ret |-> EmptyDict, g |-> cg]

\* a mutant of allowed_updates: the membership lists are updatable too
allowed_updates_with_links ==
    {"group", "allergies", "notes", "name", "birthday", "parent_ids", "supervisor_ids"}

(***************************************************************************)
(* models.update_child_details                                             *)
(***************************************************************************)
allowed_updates == {"group", "allergies", "notes", "name", "birthday"}

\* MongoDB's update operator $set on one document
MongoSet(doc, set) ==
    [k \in DOMAIN doc \cup DOMAIN set |-> IF k \in DOMAIN set THEN set[k] ELSE doc[k]]

\* a mutant of update_child_details: the update is applied and reported as
\* not matched
update_child_details_unacknowledged(coll, child_id, update_data, g, net) ==
    LET c == get_db(g, net)
        cg == [db |-> c.db, client |-> c.client]
        keys == {k \in DOMAIN update_data : k \in allowed_updates}
        set == [k \in keys |-> update_data[k]]
        hit == /\ c.exc = "none" /\ CommandExc(net) = "none" /\ keys # {}
               /\ ObjectIdValid(child_id) /\ ObjectId(child_id) \in DOMAIN coll
    IN  [exc |-> c.exc, ret |-> FALSE, g |-> cg,
         coll |-> IF hit
                  THEN [coll EXCEPT ![ObjectId(child_id)] =
                           MongoSet(coll[ObjectId(child_id)], set)]
                  ELSE coll]

\* a mutant of update_child_details: the matched document is removed
update_child_details_removing(coll, child_id, update_data, g, net) ==
    LET c == get_db(g, net)
        cg == [db |-> c.db, client |-> c.client]
        o == ObjectId(child_id)
        hit == /\ c.exc = "none" /\ CommandExc(net) = "none"
               /\ ObjectIdValid(child_id) /\ o \in DOMAIN coll
    IN  [exc |-> c.exc, ret |-> hit, g |-> cg,
         coll |-> IF hit THEN [k \in DOMAIN coll \ {o} |-> coll[k]] ELSE coll]

update_child_details(coll, child_id, update_data, g, net) ==
    LET c == get_db(g, net)
        cg == [db |-> c.db, client |-> c.client]
        keys == {k \in DOMAIN update_data : k \in allowed_updates}
        set == [k \in keys |-> update_data[k]]
        out(e, b, cl) == [exc |-> e, ret |-> b, g |-> cg, coll |-> cl]
    IN  IF c.exc # "none" THEN out(c.exc, FALSE, coll)
        ELSE IF keys = {} THEN out("none", FALSE, coll)
        ELSE IF ~ObjectIdValid(child_id) THEN out("none", FALSE, coll)
        ELSE IF CommandExc(net) = "OperationFailure" THEN out("OperationFailure", FALSE, coll)
        ELSE IF CommandExc(net) # "none" THEN out("none", FALSE, coll)
        ELSE LET o == ObjectId(child_id) IN
             IF o \in DOMAIN coll
             THEN out("none", TRUE, [coll EXCEPT ![o] = MongoSet(coll[o], set)])
             ELSE out("none", FALSE, coll)

(***************************************************************************)
(* models.link_supervisor_to_child                                         *)
(***************************************************************************)
\* a mutant of AddToSet: the value is pushed, present or not ($push)
AddToSet_push(doc, field, v) == [doc EXCEPT ![field] = Append(doc[field], v)]

\* MongoDB's update operator $addToSet on one array field
AddToSet(doc, field, v) ==
    IF InList(v, doc[field]) THEN doc
    ELSE [doc EXCEPT ![field] = Append(doc[field], v)]

\* a mutant of link_supervisor_to_child: the return value is decided by
\* modified_count, not by matched_count
link_supervisor_to_child_modified(coll, child_id, supervisor_id, g, net) ==
    LET c == get_db(g, net)
        o == ObjectId(child_id)
        hit == /\ c.exc = "none" /\ CommandExc(net) = "none"
               /\ ObjectIdValid(child_id) /\ ObjectIdValid(supervisor_id)
               /\ o \in DOMAIN coll
        after == IF hit THEN [coll EXCEPT ![o] =
                     AddToSet(coll[o], "supervisor_ids", ObjectId(supervisor_id))]
                 ELSE coll
    IN  [exc |-> IF c.exc # "none" THEN c.exc
                 ELSE IF ObjectIdValid(child_id) /\ ObjectIdValid(supervisor_id)
                         /\ CommandExc(net) = "OperationFailure"
                 THEN "OperationFailure" ELSE "none",
         ret |-> after # coll, g |-> [db |-> c.db, client |-> c.client],
         coll |-> after]

\* a mutant of link_supervisor_to_child: the list is read, extended and
\* written back whole; the write is the list with the one new id ($set)
link_supervisor_to_child_overwriting(coll, child_id, supervisor_id, g, net) ==
    LET c == get_db(g, net)
        cg == [db |-> c.db, client |-> c.client]
        out(e, b, cl) == [exc |-> e, ret |-> b, g |-> cg, coll |-> cl]
    IN  IF c.exc # "none" THEN out(c.exc, FALSE, coll)
        ELSE IF ~ObjectIdValid(child_id) \/ ~ObjectIdValid(supervisor_id)
        THEN out("none", FALSE, coll)
        ELSE IF CommandExc(net) = "OperationFailure" THEN out("OperationFailure", FALSE, coll)
        ELSE IF CommandExc(net) # "none" THEN out("none", FALSE, coll)
        ELSE LET o == ObjectId(child_id) IN
             IF o \in DOMAIN coll
             THEN out("none", TRUE,
                      [coll EXCEPT ![o]["supervisor_ids"] = <<ObjectId(supervisor_id)>>])
             ELSE out("none", FALSE, coll)

\* a mutant of link_supervisor_to_child: the id is added to parent_ids
link_supervisor_to_child_as_parent(coll, child_id, supervisor_id, g, net) ==
    LET c == get_db(g, net)
        cg == [db |-> c.db, client |-> c.client]
        out(e, b, cl) == [exc |-> e, ret |-> b, g |-> cg, coll |-> cl]
    IN  IF c.exc # "none" THEN out(c.exc, FALSE, coll)
        ELSE IF ~ObjectIdValid(child_id) \/ ~ObjectIdValid(supervisor_id)
        THEN out("none", FALSE, coll)
        ELSE IF CommandExc(net) = "OperationFailure" THEN out("OperationFailure", FALSE, coll)
        ELSE IF CommandExc(net) # "none" THEN out("none", FALSE, coll)
        ELSE LET o == ObjectId(child_id) IN
             IF o \in DOMAIN coll
             THEN out("none", TRUE,
                      [coll EXCEPT ![o] =
                          AddToSet(coll[o], "parent_ids", ObjectId(supervisor_id))])
             ELSE out("none", FALSE, coll)

link_supervisor_to_child(coll, child_id, supervisor_id, g, net) ==
    LET c == get_db(g, net)
        cg == [db |-> c.db, client |-> c.client]
        out(e, b, cl) == [exc |-> e, ret |-> b, g |-> cg, coll |-> cl]
    IN  IF c.exc # "none" THEN out(c.exc, FALSE, coll)
        ELSE IF ~ObjectIdValid(child_id) \/ ~ObjectIdValid(supervisor_id)
        THEN out("none", FALSE, coll)
        ELSE IF CommandExc(net) = "OperationFailure" THEN out("OperationFailure", FALSE, coll)
        ELSE IF CommandExc(net) # "none" THEN out("none", FALSE, coll)
        ELSE LET o == ObjectId(child_id) IN
             IF o \in DOMAIN coll
             THEN out("none", TRUE,
                      [coll EXCEPT ![o] =
                          AddToSet(coll[o], "supervisor_ids", ObjectId(supervisor_id))])
             ELSE out("none", FALSE, coll)

(***************************************************************************)
(* models.is_parent_of, models.is_supervisor_of                            *)
(***************************************************************************)
is_member_of(field, coll, user_id, child_id, g, net) ==
    LET c == get_db(g, net)
        cg == [db |-> c.db, client |-> c.client]
    IN  IF c.exc # "none" THEN [exc |-> c.exc, ret |-> FALSE, g |-> cg]
        ELSE IF ~ObjectIdValid(child_id) \/ ~ObjectIdValid(user_id)
        THEN [exc |-> "none", ret |-> FALSE, g |-> cg]
        ELSE IF CommandExc(net) # "none" THEN [exc |-> "none", ret |-> FALSE, g |-> cg]
        ELSE [exc |-> "none",
              ret |-> /\ ObjectId(child_id) \in DOMAIN coll
                      /\ InList(ObjectId(user_id), coll[ObjectId(child_id)][field]),
              g |-> cg]

\* a mutant of is_parent_of: the membership is looked up in the wrong list
is_parent_of_wrong_list(coll, user_id, child_id, g, net) ==
    is_member_of("supervisor_ids", coll, user_id, child_id, g, net)

is_parent_of(coll, user_id, child_id, g, net) ==
    is_member_of("parent_ids", coll, user_id, child_id, g, net)

\* a mutant of is_supervisor_of: the query names parent_ids
is_supervisor_of_by_parent(coll, user_id, child_id, g, net) ==
    is_member_of("parent_ids", coll, user_id, child_id, g, net)

is_supervisor_of(coll, user_id, child_id, g, net) ==
    is_member_of("supervisor_ids", coll, user_id, child_id, g, net)

\* a mutant of check_child_access: a teacher is let in on the role alone
check_child_access_any_teacher(coll, user_id, user_role, child_id, g, net) ==
    IF user_role = "teacher" /\ ~FalsyStr(user_id) /\ ~FalsyStr(child_id)
    THEN [ret |-> TRUE, g |-> g]
    ELSE LET m == is_parent_of(coll, user_id, child_id, g, net) IN
         [ret |-> user_role = "parent" /\ m.exc = "none" /\ m.ret, g |-> m.g]

(***************************************************************************)
(* routes.check_child_access                                               *)
(***************************************************************************)
check_child_access(coll, user_id, user_role, child_id, g, net) ==
    IF FalsyStr(user_id) \/ user_id = Unset \/ FalsyStr(child_id)
    THEN [ret |-> FALSE, g |-> g]
    ELSE IF user_role = "teacher"
    THEN LET m == is_supervisor_of(coll, user_id, child_id, g, net) IN
         [ret |-> m.exc = "none" /\ m.ret, g |-> m.g]
    ELSE IF user_role = "parent"
    THEN LET m == is_parent_of(coll, user_id, child_id, g, net) IN
         [ret |-> m.exc = "none" /\ m.ret, g |-> m.g]
    ELSE [ret |-> FALSE, g |-> g]

(***************************************************************************)
(* models.get_children_for_parent, models.get_children_for_supervisor:     *)
(* the {_id, name} projections in the store's natural (insertion) order.   *)
(***************************************************************************)
RECURSIVE Ascending(_)
Ascending(S) ==
    IF S = {} THEN <<>>
    ELSE LET m == CHOOSE x \in S : \A y \in S : x <= y
         IN  <<m>> \o Ascending(S \ {m})

get_children_for(field, coll, user_id, g, net) ==
    LET c == get_db(g, net)
        cg == [db |-> c.db, client |-> c.client]
    IN  IF c.exc # "none" THEN [exc |-> c.exc, ret |-> <<>>, g |-> cg]
        ELSE IF ~ObjectIdValid(user_id) THEN [exc |-> "none", ret |-> <<>>, g |-> cg]
        ELSE IF CommandExc(net) # "none" THEN [exc |-> "none", ret |-> <<>>, g |-> cg]
        ELSE LET hits == Ascending({o \in DOMAIN coll :
                                      InList(ObjectId(user_id), coll[o][field])})
             IN  [exc |-> "none",
                  ret |-> [i \in DOMAIN hits |->
                             serialize_doc([k \in {"_id", "name"} |-> coll[hits[i]][k]])],
                  g |-> cg]

\* a mutant of get_children_for_parent: the query names supervisor_ids
get_children_for_parent_by_supervisor(coll, parent_id, g, net) ==
    get_children_for("supervisor_ids", coll, parent_id, g, net)

get_children_for_parent(coll, parent_id, g, net) ==
    get_children_for("parent_ids", coll, parent_id, g, net)

get_children_for_supervisor(coll, supervisor_id, g, net) ==
    get_children_for("supervisor_ids", coll, supervisor_id, g, net)

(***************************************************************************)
(* The details of an activity: a JSON object, or (under the key "<str>")   *)
(* a JSON string.                                                           *)
(***************************************************************************)
IsDictValue(d) == ~Has(d, "<str>")
FalsyDetails(data) ==
    \/ ~Has(data, "details")
    \/ IF IsDictValue(data["details"]) THEN FalsyDict(data["details"])
       ELSE data["details"]["<str>"] = ""

\* a mutant of add_activity_record: created_at is always the insertion time
add_activity_record_restamped(coll, n, activity_data, g, net) ==
    LET c == get_db(g, net)
        cg == [db |-> c.db, client |-> c.client]
        new_id == ActOid(n + 1)
        missing == {f \in {"child_id", "type", "logged_by"} : NotStr(activity_data, f)}
                     \cup (IF FalsyDetails(activity_data) THEN {"details"} ELSE {})
        doc == [k \in DOMAIN activity_data \cup {"_id", "created_at"} |->
                  CASE k = "_id" -> new_id
                    [] k = "child_id" -> ObjectId(activity_data["child_id"])
                    [] k = "logged_by" -> ObjectId(activity_data["logged_by"])
                    [] k = "created_at" -> DateTime(utcnow)
                    [] OTHER -> activity_data[k]]
        raise(e) == [exc |-> e, ret |-> None, g |-> cg, coll |-> coll]
    IN  IF c.exc # "none" THEN raise(c.exc)
        ELSE IF missing # {} THEN raise("ValueError")
        ELSE IF ~ObjectIdValid(activity_data["child_id"])
                 \/ ~ObjectIdValid(activity_data["logged_by"])
        THEN raise("ValueError")
        ELSE IF ~IsDictValue(activity_data["details"]) THEN raise("ValueError")
        ELSE IF activity_data["type"] = "drawing"
                 /\ NotStr(activity_data["details"], "image_url")
        THEN raise("ValueError")
        ELSE IF CommandExc(net) = "OperationFailure" THEN raise("OperationFailure")
        ELSE IF CommandExc(net) # "none" THEN raise("ValueError")
        ELSE [exc |-> "none", ret |-> str(new_id), g |-> cg,
              coll |-> [o \in DOMAIN coll \cup {new_id} |->
                           IF o = new_id THEN doc ELSE coll[o]]]

\* a mutant of add_activity_record: no validation that depends on the type
add_activity_record_untyped(coll, n, activity_data, g, net) ==
    LET c == get_db(g, net)
        cg == [db |-> c.db, client |-> c.client]
        new_id == ActOid(n + 1)
        missing == {f \in {"child_id", "type", "logged_by"} : NotStr(activity_data, f)}
                     \cup (IF FalsyDetails(activity_data) THEN {"details"} ELSE {})
        doc == [k \in DOMAIN activity_data \cup {"_id", "created_at"} |->
                  CASE k = "_id" -> new_id
                    [] k = "child_id" -> ObjectId(activity_data["child_id"])
                    [] k = "logged_by" -> ObjectId(activity_data["logged_by"])
                    [] k = "created_at" ->
                          IF Has(activity_data, "created_at")
                          THEN activity_data["created_at"] ELSE DateTime(utcnow)
                    [] OTHER -> activity_data[k]]
        raise(e) == [exc |-> e, ret |-> None, g |-> cg, coll |-> coll]
    IN  IF c.exc # "none" THEN raise(c.exc)
        ELSE IF missing # {} THEN raise("ValueError")
        ELSE IF ~ObjectIdValid(activity_data["child_id"])
                 \/ ~ObjectIdValid(activity_data["logged_by"])
        THEN raise("ValueError")
        ELSE IF ~IsDictValue(activity_data["details"]) THEN raise("ValueError")
        ELSE IF CommandExc(net) = "OperationFailure" THEN raise("OperationFailure")
        ELSE IF CommandExc(net) # "none" THEN raise("ValueError")
        ELSE [exc |-> "none", ret |-> str(new_id), g |-> cg,
              coll |-> [o \in DOMAIN coll \cup {new_id} |->
                           IF o = new_id THEN doc ELSE coll[o]]]

(***************************************************************************)
(* models.add_activity_record (n: the activities inserted so far)          *)
(***************************************************************************)
add_activity_record(coll, n, activity_data, g, net) ==
    LET c == get_db(g, net)
        cg == [db |-> c.db, client |-> c.client]
        new_id == ActOid(n + 1)
        missing == {f \in {"child_id", "type", "logged_by"} : NotStr(activity_data, f)}
                     \cup (IF FalsyDetails(activity_data) THEN {"details"} ELSE {})
        doc == [k \in DOMAIN activity_data \cup {"_id", "created_at"} |->
                  CASE k = "_id" -> new_id
                    [] k = "child_id" -> ObjectId(activity_data["child_id"])
                    [] k = "logged_by" -> ObjectId(activity_data["logged_by"])
                    [] k = "created_at" ->
                          IF Has(activity_data, "created_at")
                          THEN activity_data["created_at"] ELSE DateTime(utcnow)
                    [] OTHER -> activity_data[k]]
        raise(e) == [exc |-> e, ret |-> None, g |-> cg, coll |-> coll]
    IN  IF c.exc # "none" THEN raise(c.exc)
        ELSE IF missing # {} THEN raise("ValueError")
        ELSE IF ~ObjectIdValid(activity_data["child_id"])
                 \/ ~ObjectIdValid(activity_data["logged_by"])
        THEN raise("ValueError")
        ELSE IF ~IsDictValue(activity_data["details"]) THEN raise("ValueError")
        ELSE IF activity_data["type"] = "drawing"
                 /\ NotStr(activity_data["details"], "image_url")
        THEN raise("ValueError")
        ELSE IF CommandExc(net) = "OperationFailure" THEN raise("OperationFailure")
        ELSE IF CommandExc(net) # "none" THEN raise("ValueError")
        ELSE [exc |-> "none", ret |-> str(new_id), g |-> cg,
              coll |-> [o \in DOMAIN coll \cup {new_id} |->
                           IF o = new_id THEN doc ELSE coll[o]]]

(***************************************************************************)
(* models.get_activities_for_child.  The cursor is sorted by created_at,  *)
(* newest first; the order of documents with equal created_at is the      *)
(* store's choice, so the result is any of the lists in ret.               *)
(***************************************************************************)
\* a mutant of DescendingLists: oldest first
RECURSIVE AscendingLists(_, _)
AscendingLists(coll, S) ==
    IF S = {} THEN {<<>>}
    ELSE UNION { { <<m>> \o rest : rest \in AscendingLists(coll, S \ {m}) } :
                 m \in {x \in S : \A y \in S :
                           TimeGE(coll[y]["created_at"], coll[x]["created_at"])} }

RECURSIVE DescendingLists(_, _)
DescendingLists(coll, S) ==
    IF S = {} THEN {<<>>}
    ELSE UNION { { <<m>> \o rest : rest \in DescendingLists(coll, S \ {m}) } :
                 m \in {x \in S : \A y \in S :
                           TimeGE(coll[x]["created_at"], coll[y]["created_at"])} }

\* a mutant of get_activities_for_child: the upper bound is inclusive ($lte)
get_activities_for_child_closed(coll, child_id, activity_type, start_date, end_date, g, net) ==
    LET c == get_db(g, net)
        cg == [db |-> c.db, client |-> c.client]
        raise(e) == [exc |-> e, ret |-> {<<>>}, g |-> cg]
    IN  IF c.exc # "none" THEN raise(c.exc)
        ELSE IF ~ObjectIdValid(child_id) THEN raise("ValueError")
        ELSE IF CommandExc(net) = "OperationFailure" THEN raise("OperationFailure")
        ELSE IF CommandExc(net) # "none" THEN raise("ValueError")
        ELSE LET hit(d) ==
                    /\ d["child_id"] = ObjectId(child_id)
                    /\ FalsyStr(activity_type) \/ d["type"] = activity_type
                    /\ (start_date.has \/ end_date.has) => d["created_at"].kind = "date"
                    /\ start_date.has => d["created_at"].v >= start_date.v
                    /\ end_date.has => d["created_at"].v <= end_date.v
                 hits == {o \in DOMAIN coll : hit(coll[o])}
             IN  [exc |-> "none",
                  ret |-> { [i \in DOMAIN l |-> serialize_doc(coll[l[i]])] :
                            l \in DescendingLists(coll, hits) },
                  g |-> cg]

get_activities_for_child(coll, child_id, activity_type, start_date, end_date, g, net) ==
    LET c == get_db(g, net)
        cg == [db |-> c.db, client |-> c.client]
        raise(e) == [exc |-> e, ret |-> {<<>>}, g |-> cg]
    IN  IF c.exc # "none" THEN raise(c.exc)
        ELSE IF ~ObjectIdValid(child_id) THEN raise("ValueError")
        ELSE IF CommandExc(net) = "OperationFailure" THEN raise("OperationFailure")
        ELSE IF CommandExc(net) # "none" THEN raise("ValueError")
        ELSE LET hit(d) ==
                    /\ d["child_id"] = ObjectId(child_id)
                    /\ FalsyStr(activity_type) \/ d["type"] = activity_type
                    /\ (start_date.has \/ end_date.has) => d["created_at"].kind = "date"
                    /\ start_date.has => d["created_at"].v >= start_date.v
                    /\ end_date.has => d["created_at"].v < end_date.v
                 hits == {o \in DOMAIN coll : hit(coll[o])}
             IN  [exc |-> "none",
                  ret |-> { [i \in DOMAIN l |-> serialize_doc(coll[l[i]])] :
                            l \in DescendingLists(coll, hits) },
                  g |-> cg]

(***************************************************************************)
(* models.get_activity_by_id (the empty dict stands for None)              *)
(***************************************************************************)
get_activity_by_id(coll, activity_id, g, net) ==
    LET c == get_db(g, net)
        cg == [db |-> c.db, client |-> c.client]
    IN  IF c.exc # "none" THEN [exc |-> c.exc, ret |-> EmptyDict, g |-> cg]
        ELSE IF ~ObjectIdValid(activity_id) THEN [exc |-> "none", ret |-> EmptyDict, g |-> cg]
        ELSE IF CommandExc(net) # "none" THEN [exc |-> "none", ret |-> EmptyDict, g |-> cg]
        ELSE IF ObjectId(activity_id) \in DOMAIN coll
             THEN [exc |-> "none", ret |-> serialize_doc(coll[ObjectId(activity_id)]),
                   g |-> cg]
             ELSE [exc |-> "none", ret |-> EmptyDict, g |-> cg]

\* a mutant of delete_activity_record: true for every well-formed id
delete_activity_record_acknowledged(coll, activity_id, g, net) ==
    LET c == get_db(g, net)
        cg == [db |-> c.db, client |-> c.client]
    IN  IF c.exc # "none" \/ ~ObjectIdValid(activity_id)
        THEN [exc |-> c.exc, ret |-> FALSE, g |-> cg, coll |-> coll]
        ELSE [exc |-> "none", ret |-> TRUE, g |-> cg,
              coll |-> [x \in DOMAIN coll \ {ObjectId(activity_id)} |-> coll[x]]]

(***************************************************************************)
(* models.delete_activity_record                                           *)
(***************************************************************************)
delete_activity_record(coll, activity_id, g, net) ==
    LET c == get_db(g, net)
        cg == [db |-> c.db, client |-> c.client]
        out(e, b, cl) == [exc |-> e, ret |-> b, g |-> cg, coll |-> cl]
    IN  IF c.exc # "none" THEN out(c.exc, FALSE, coll)
        ELSE IF ~ObjectIdValid(activity_id) THEN out("none", FALSE, coll)
        ELSE IF CommandExc(net) = "OperationFailure" THEN out("OperationFailure", FALSE, coll)
        ELSE IF CommandExc(net) # "none" THEN out("none", FALSE, coll)
        ELSE LET o == ObjectId(activity_id) IN
             IF o \in DOMAIN coll
             THEN out("none", TRUE, [x \in DOMAIN coll \ {o} |-> coll[x]])
             ELSE out("none", FALSE, coll)

(***************************************************************************)
(* The requests a specification sends: I names the operations, the         *)
(* credentials, the URL, query and body values and the network conditions  *)
(* they are drawn from.                                                    *)
(***************************************************************************)
\* the <child_id> segment of a URL: the ids the store can hand out, and a
\* string that is no id
ChildIds == {ChildHex[k] : k \in 1..MaxChildren} \cup {"zz"}
ActivityIds == {ActHex[k] : k \in 1..MaxActivities} \cup {"zz"}

ChildPayloads ==
    { [name |-> "Ana", birthday |-> "2022-02-20"],
      [name |-> "Ben", birthday |-> "2021-07-01", allergies |-> <<"nuts">>,
       notes |-> "naps at noon"],
      [name |-> "Ana"],
      [name |-> "", birthday |-> "2022-02-20"],
      EmptyDict }

UpdatePayloads ==
    { [group |-> "Butterflies", notes |-> "updated", invalid_field |-> "x",
       parent_ids |-> <<>>, supervisor_ids |-> <<>>, created_at |-> "never"],
      [invalid_field |-> "x", parent_ids |-> <<>>],
      EmptyDict }

LinkPayloads ==
    { [supervisor_id |-> "a2"], [supervisor_id |-> "zz"], EmptyDict }

(***************************************************************************)
(* A request arrives: token_required.                                      *)
(***************************************************************************)
Start(r, I) ==
    /\ slots[r].pc = "idle"
    /\ \E op \in I.ops, tok \in I.tokens :
         LET v == token_required(tok)
             s == [IdleSlot EXCEPT !.op = op, !.tok = tok,
                                   !.uid = v.uid, !.role = v.role]
         IN  slots' = [slots EXCEPT ![r] =
                 IF v.status = 0
                 THEN [s EXCEPT !.pc = "handler"]
                 ELSE Respond(s, G(s), v.status, Msg("unauthorized"))]
    /\ UNCHANGED <<children, activities, nAct>>

\* a mutant of handle_create_child: the body is not validated by the route
handle_create_child_unvalidated(r, I) ==
    LET s == slots[r] IN
    /\ s.pc = "handler" /\ s.op = "create-child"
    /\ \E data \in I.child_payloads, net \in I.nets :
         LET s1 == [s EXCEPT !.data = data]
             res == create_child_record(children, data, s.uid, G(s), net)
         IN
         IF s.role # "parent"
         THEN /\ slots' = [slots EXCEPT ![r] = Respond(s1, G(s), 403, Msg("forbidden"))]
              /\ UNCHANGED children
         ELSE /\ Cardinality(DOMAIN res.coll) <= MaxChildren
              /\ children' = res.coll
              /\ slots' = [slots EXCEPT ![r] =
                    CASE res.exc = "none" ->
                           Respond(s1, res.g, 201, [child_id |-> res.ret])
                      [] res.exc = "ValueError" ->
                           Respond(s1, res.g, 400, Msg("failed to create child"))
                      [] res.exc = "OperationFailure" ->
                           Respond(s1, res.g, 500, Msg("database error"))
                      [] OTHER ->
                           Respond(s1, res.g, 500, Msg("internal server error"))]
    /\ UNCHANGED <<activities, nAct>>

(***************************************************************************)
(* routes.handle_create_child                                              *)
(***************************************************************************)
handle_create_child(r, I) ==
    LET s == slots[r] IN
    /\ s.pc = "handler" /\ s.op = "create-child"
    /\ \E data \in I.child_payloads, net \in I.nets :
         LET s1 == [s EXCEPT !.data = data] IN
         IF s.role # "parent"
         THEN /\ slots' = [slots EXCEPT ![r] = Respond(s1, G(s), 403, Msg("forbidden"))]
              /\ UNCHANGED children
         ELSE IF FalsyDict(data) \/ NotStr(data, "name") \/ NotStr(data, "birthday")
              THEN /\ slots' = [slots EXCEPT ![r] =
                                  Respond(s1, G(s), 400, Msg("missing fields"))]
                   /\ UNCHANGED children
              ELSE LET res == create_child_record(children, data, s.uid, G(s), net) IN
                   /\ Cardinality(DOMAIN res.coll) <= MaxChildren
                   /\ children' = res.coll
                   /\ slots' = [slots EXCEPT ![r] =
                         CASE res.exc = "none" ->
                                Respond(s1, res.g, 201, [child_id |-> res.ret])
                           [] res.exc = "ValueError" ->
                                Respond(s1, res.g, 400, Msg("failed to create child"))
                           [] res.exc = "OperationFailure" ->
                                Respond(s1, res.g, 500, Msg("database error"))
                           [] OTHER ->
                                Respond(s1, res.g, 500, Msg("internal server error"))]
    /\ UNCHANGED <<activities, nAct>>

(***************************************************************************)
(* routes.handle_update_child: the update, then (when the update reports   *)
(* failure) the lookup that tells "not found" from "nothing to update".    *)
(***************************************************************************)
handle_update_child(r, I) ==
    LET s == slots[r] IN
    /\ s.pc = "handler" /\ s.op = "update-child"
    /\ \E child_id \in I.child_ids, data \in I.update_payloads, net \in I.nets :
         LET s1 == [s EXCEPT !.id = child_id, !.data = data] IN
         IF FalsyDict(data)
         THEN /\ slots' = [slots EXCEPT ![r] = Respond(s1, G(s), 400, Msg("missing body"))]
              /\ UNCHANGED children
         ELSE IF ~ObjectIdValid(child_id)
         THEN /\ slots' = [slots EXCEPT ![r] =
                             Respond(s1, G(s), 500, Msg("internal server error"))]
              /\ UNCHANGED children
         ELSE LET res == update_child_details(children, child_id, data, G(s), net) IN
              /\ children' = res.coll
              /\ slots' = [slots EXCEPT ![r] =
                    CASE res.exc = "OperationFailure" ->
                           Respond(s1, res.g, 500, Msg("database error"))
                      [] res.exc \notin {"none", "OperationFailure"} ->
                           Respond(s1, res.g, 500, Msg("internal server error"))
                      [] res.exc = "none" /\ res.ret ->
                           Respond(s1, res.g, 200, Msg("child details updated"))
                      [] OTHER ->
                           [s1 EXCEPT !.pc = "update_lookup", !.db = res.g.db,
                                      !.client = res.g.client]]
    /\ UNCHANGED <<activities, nAct>>

handle_update_child_lookup(r, I) ==
    LET s == slots[r] IN
    /\ s.pc = "update_lookup"
    /\ \E net \in I.nets :
         LET res == get_child_by_id(children, s.id, G(s), net) IN
         slots' = [slots EXCEPT ![r] =
            CASE res.exc # "none" -> Respond(s, res.g, 500, Msg("internal server error"))
              [] res.exc = "none" /\ ~FalsyDict(res.ret) ->
                   Respond(s, res.g, 400, Msg("no valid fields"))
              [] OTHER -> Respond(s, res.g, 404, Msg("child not found"))]
    /\ UNCHANGED <<children, activities, nAct>>

(***************************************************************************)
(* routes.handle_link_supervisor                                           *)
(***************************************************************************)
handle_link_supervisor(r, I) ==
    LET s == slots[r] IN
    /\ s.pc = "handler" /\ s.op = "link-supervisor"
    /\ \E child_id \in I.child_ids, data \in I.link_payloads, net \in I.nets :
         LET s1 == [s EXCEPT !.id = child_id, !.data = data]
             supervisor_id == Get(data, "supervisor_id")
         IN
         IF FalsyStr(supervisor_id)
         THEN /\ slots' = [slots EXCEPT ![r] =
                             Respond(s1, G(s), 400, Msg("missing supervisor_id"))]
              /\ UNCHANGED children
         ELSE IF ~ObjectIdValid(child_id) \/ ~ObjectIdValid(supervisor_id)
         THEN /\ slots' = [slots EXCEPT ![r] =
                             Respond(s1, G(s), 500, Msg("internal server error"))]
              /\ UNCHANGED children
         ELSE LET res == link_supervisor_to_child(children, child_id, supervisor_id,
                                                  G(s), net) IN
              /\ children' = res.coll
              /\ slots' = [slots EXCEPT ![r] =
                    CASE res.exc = "OperationFailure" ->
                           Respond(s1, res.g, 500, Msg("database error"))
                      [] res.exc \notin {"none", "OperationFailure"} ->
                           Respond(s1, res.g, 500, Msg("internal server error"))
                      [] res.exc = "none" /\ res.ret ->
                           Respond(s1, res.g, 200, Msg("supervisor link updated"))
                      [] OTHER -> Respond(s1, res.g, 404, Msg("child not found"))]
    /\ UNCHANGED <<activities, nAct>>

\* a mutant of stamp_logged_by: a logged_by the caller supplied is kept
stamp_logged_by_default(data, current_user_id) ==
    IF Has(data, "logged_by") THEN data
    ELSE MongoSet(data, [logged_by |-> current_user_id])

\* data['logged_by'] = g.current_user_id
stamp_logged_by(data, current_user_id) ==
    MongoSet(data, [logged_by |-> current_user_id])

(***************************************************************************)
(* routes.handle_add_activity                                              *)
(***************************************************************************)
handle_add_activity(r, I) ==
    LET s == slots[r] IN
    /\ s.pc = "handler" /\ s.op = "create-activity"
    /\ \E data \in I.activity_payloads, net \in I.nets :
         LET s1 == [s EXCEPT !.data = data] IN
         IF FalsyDict(data) \/ NotStr(data, "child_id") \/ NotStr(data, "type")
               \/ FalsyDetails(data)
         THEN /\ slots' = [slots EXCEPT ![r] =
                             Respond(s1, G(s), 400, Msg("missing fields"))]
              /\ UNCHANGED <<activities, nAct>>
         ELSE LET stamped == stamp_logged_by(data, s.uid)
                  res == add_activity_record(activities, nAct, stamped, G(s), net)
              IN
              /\ res.exc = "none" => nAct < MaxActivities
              /\ activities' = res.coll
              /\ nAct' = IF res.exc = "none" THEN nAct + 1 ELSE nAct
              /\ slots' = [slots EXCEPT ![r] =
                    CASE res.exc = "none" ->
                           Respond(s1, res.g, 201, [activity_id |-> res.ret])
                      [] res.exc = "ValueError" ->
                           Respond(s1, res.g, 400, Msg("failed to add activity"))
                      [] res.exc = "OperationFailure" ->
                           Respond(s1, res.g, 500, Msg("database error"))
                      [] OTHER ->
                           Respond(s1, res.g, 500, Msg("internal server error"))]
    /\ UNCHANGED children

(***************************************************************************)
(* routes.handle_get_child_data: the access check, then the read.          *)
(***************************************************************************)
handle_get_child_data(r, I) ==
    LET s == slots[r] IN
    /\ s.pc = "handler" /\ s.op = "get-child"
    /\ \E child_id \in I.child_ids, net \in I.nets :
         LET s1 == [s EXCEPT !.id = child_id]
             acc == check_child_access(children, s.uid, s.role, child_id, G(s), net)
         IN  slots' = [slots EXCEPT ![r] =
                IF acc.ret
                THEN [s1 EXCEPT !.pc = "get_child", !.db = acc.g.db,
                                !.client = acc.g.client]
                ELSE Respond(s1, acc.g, 403, Msg("forbidden"))]
    /\ UNCHANGED <<children, activities, nAct>>

handle_get_child_data_read(r, I) ==
    LET s == slots[r] IN
    /\ s.pc = "get_child"
    /\ \E net \in I.nets :
         LET res == get_child_by_id(children, s.id, G(s), net) IN
         slots' = [slots EXCEPT ![r] =
            CASE res.exc # "none" -> Respond(s, res.g, 500, Msg("internal server error"))
              [] res.exc = "none" /\ ~FalsyDict(res.ret) -> Respond(s, res.g, 200, res.ret)
              [] OTHER -> Respond(s, res.g, 404, Msg("child not found"))]
    /\ UNCHANGED <<children, activities, nAct>>

(***************************************************************************)
(* routes.handle_get_children_list_data                                    *)
(***************************************************************************)
handle_get_children_list_data(r, I) ==
    LET s == slots[r] IN
    /\ s.pc = "handler" /\ s.op = "list-children"
    /\ \E net \in I.nets :
         IF s.role \notin {"parent", "teacher"}
         THEN slots' = [slots EXCEPT ![r] = Respond(s, G(s), 403, Msg("invalid role"))]
         ELSE LET res == IF s.role = "parent"
                         THEN get_children_for_parent(children, s.uid, G(s), net)
                         ELSE get_children_for_supervisor(children, s.uid, G(s), net)
              IN  slots' = [slots EXCEPT ![r] =
                     IF res.exc # "none"
                     THEN Respond(s, res.g, 500, Msg("internal server error"))
                     ELSE Respond(s, res.g, 200, res.ret)]
    /\ UNCHANGED <<children, activities, nAct>>

(***************************************************************************)
(* routes.handle_get_activities_data: the access check, then the dates are *)
(* parsed and the activities read.                                         *)
(***************************************************************************)
handle_get_activities_data(r, I) ==
    LET s == slots[r] IN
    /\ s.pc = "handler" /\ s.op = "list-activities"
    /\ \E q \in I.queries, net \in I.nets :
         LET s1 == [s EXCEPT !.q = q] IN
         IF FalsyStr(q.child_id)
         THEN slots' = [slots EXCEPT ![r] =
                           Respond(s1, G(s), 400, Msg("missing child_id"))]
         ELSE LET acc == check_child_access(children, s.uid, s.role, q.child_id,
                                            G(s), net)
              IN  slots' = [slots EXCEPT ![r] =
                     IF acc.ret
                     THEN [s1 EXCEPT !.pc = "get_activities", !.db = acc.g.db,
                                     !.client = acc.g.client]
                     ELSE Respond(s1, acc.g, 403, Msg("forbidden"))]
    /\ UNCHANGED <<children, activities, nAct>>

\* a mutant of handle_get_activities_data_read: the upper bound is 00:00 of
\* end_date, as the comment at the route has it
handle_get_activities_data_read_exclusive(r, I) ==
    LET s == slots[r]
        q == s.q
    IN
    /\ s.pc = "get_activities"
    /\ \E net \in I.nets :
         IF \/ ~FalsyStr(q.start_date) /\ ~DateValid(q.start_date)
            \/ ~FalsyStr(q.end_date) /\ ~DateValid(q.end_date)
         THEN slots' = [slots EXCEPT ![r] =
                           Respond(s, G(s), 400, Msg("invalid date format"))]
         ELSE LET start_date == IF FalsyStr(q.start_date) THEN NoDate
                                ELSE SomeDate(strptime(q.start_date))
                  end_date == IF FalsyStr(q.end_date) THEN NoDate
                              ELSE SomeDate(strptime(q.end_date))
                  res == get_activities_for_child(activities, q.child_id, q.type,
                                                  start_date, end_date, G(s), net)
              IN  \E lst \in res.ret :
                    slots' = [slots EXCEPT ![r] =
                       CASE res.exc = "none" -> Respond(s, res.g, 200, lst)
                         [] res.exc = "ValueError" ->
                              Respond(s, res.g, 400, Msg("failed to get activities"))
                         [] res.exc = "OperationFailure" ->
                              Respond(s, res.g, 500, Msg("database error"))
                         [] OTHER -> Respond(s, res.g, 500, Msg("internal server error"))]
    /\ UNCHANGED <<children, activities, nAct>>

handle_get_activities_data_read(r, I) ==
    LET s == slots[r]
        q == s.q
    IN
    /\ s.pc = "get_activities"
    /\ \E net \in I.nets :
         IF \/ ~FalsyStr(q.start_date) /\ ~DateValid(q.start_date)
            \/ ~FalsyStr(q.end_date) /\ ~DateValid(q.end_date)
         THEN slots' = [slots EXCEPT ![r] =
                           Respond(s, G(s), 400, Msg("invalid date format"))]
         ELSE LET start_date == IF FalsyStr(q.start_date) THEN NoDate
                                ELSE SomeDate(strptime(q.start_date))
                  end_date == IF FalsyStr(q.end_date) THEN NoDate
                              ELSE SomeDate(strptime(q.end_date) + OneDay)
                  res == get_activities_for_child(activities, q.child_id, q.type,
                                                  start_date, end_date, G(s), net)
              IN  \E lst \in res.ret :
                    slots' = [slots EXCEPT ![r] =
                       CASE res.exc = "none" -> Respond(s, res.g, 200, lst)
                         [] res.exc = "ValueError" ->
                              Respond(s, res.g, 400, Msg("failed to get activities"))
                         [] res.exc = "OperationFailure" ->
                              Respond(s, res.g, 500, Msg("database error"))
                         [] OTHER -> Respond(s, res.g, 500, Msg("internal server error"))]
    /\ UNCHANGED <<children, activities, nAct>>

(***************************************************************************)
(* routes.handle_delete_activity: the activity is read, the supervision of *)
(* its child is checked, the activity is deleted.                          *)
(***************************************************************************)
handle_delete_activity(r, I) ==
    LET s == slots[r] IN
    /\ s.pc = "handler" /\ s.op = "delete-activity"
    /\ \E activity_id \in I.activity_ids, net \in I.nets :
         LET s1 == [s EXCEPT !.id = activity_id] IN
         IF s.role # "teacher"
         THEN slots' = [slots EXCEPT ![r] = Respond(s1, G(s), 403, Msg("forbidden"))]
         ELSE LET res == get_activity_by_id(activities, activity_id, G(s), net)
              IN  slots' = [slots EXCEPT ![r] =
                     CASE res.exc # "none" ->
                            Respond(s1, res.g, 500, Msg("internal server error"))
                       [] res.exc = "none" /\ FalsyDict(res.ret) ->
                            Respond(s1, res.g, 404, Msg("activity not found"))
                       [] OTHER ->
                            [s1 EXCEPT !.pc = "delete_check", !.db = res.g.db,
                                       !.client = res.g.client,
                                       !.loc = res.ret["child_id"]]]
    /\ UNCHANGED <<children, activities, nAct>>

\* a mutant of handle_delete_activity_check: the supervision of the
\* activity's child is not looked up
handle_delete_activity_unchecked(r, I) ==
    /\ slots[r].pc = "delete_check"
    /\ slots' = [slots EXCEPT ![r] = [slots[r] EXCEPT !.pc = "delete"]]
    /\ UNCHANGED <<children, activities, nAct>>

handle_delete_activity_check(r, I) ==
    LET s == slots[r] IN
    /\ s.pc = "delete_check"
    /\ \E net \in I.nets :
         LET m == is_supervisor_of(children, s.uid, s.loc, G(s), net) IN
         slots' = [slots EXCEPT ![r] =
            CASE m.exc # "none" -> Respond(s, m.g, 500, Msg("internal server error"))
              [] m.exc = "none" /\ ~m.ret -> Respond(s, m.g, 403, Msg("forbidden"))
              [] OTHER -> [s EXCEPT !.pc = "delete", !.db = m.g.db,
                                    !.client = m.g.client]]
    /\ UNCHANGED <<children, activities, nAct>>

\* a mutant of handle_delete_activity_delete: the result of the delete is
\* not looked at
handle_delete_activity_delete_unread(r, I) ==
    LET s == slots[r] IN
    /\ s.pc = "delete"
    /\ \E net \in I.nets :
         LET res == delete_activity_record(activities, s.id, G(s), net) IN
         /\ activities' = res.coll
         /\ slots' = [slots EXCEPT ![r] =
               Respond(s, res.g, 200, Msg("activity deleted"))]
    /\ UNCHANGED <<children, nAct>>

handle_delete_activity_delete(r, I) ==
    LET s == slots[r] IN
    /\ s.pc = "delete"
    /\ \E net \in I.nets :
         LET res == delete_activity_record(activities, s.id, G(s), net) IN
         /\ activities' = res.coll
         /\ slots' = [slots EXCEPT ![r] =
               CASE res.exc = "OperationFailure" ->
                      Respond(s, res.g, 500, Msg("database error"))
                 [] res.exc \notin {"none", "OperationFailure"} ->
                      Respond(s, res.g, 500, Msg("internal server error"))
                 [] res.exc = "none" /\ res.ret ->
                      Respond(s, res.g, 200, Msg("activity deleted"))
                 [] OTHER -> Respond(s, res.g, 404, Msg("not found or already deleted"))]
    /\ UNCHANGED <<children, nAct>>

\* a mutant of close_db: the client stays in the scope, open
close_db_leaking(r) ==
    /\ slots[r].pc = "teardown"
    /\ slots' = [slots EXCEPT ![r] = [IdleSlot EXCEPT !.client = slots[r].client,
                                                      !.db = slots[r].db]]
    /\ UNCHANGED <<children, activities, nAct>>

(***************************************************************************)
(* models.close_db, registered with app.teardown_appcontext                *)
(***************************************************************************)
close_db(r) ==
    /\ slots[r].pc = "teardown"
    /\ slots' = [slots EXCEPT ![r] = IdleSlot]
    /\ UNCHANGED <<children, activities, nAct>>

(***************************************************************************)
(* Spec: the children routes, one request at a time, every credential,     *)
(* every network condition.                                                *)
(***************************************************************************)
ChildInputs ==
    [ops |-> {"create-child", "update-child", "link-supervisor", "get-child",
              "list-children"},
     tokens |-> Tokens, nets |-> Net, child_ids |-> ChildIds,
     child_payloads |-> ChildPayloads, update_payloads |-> UpdatePayloads,
     link_payloads |-> LinkPayloads]

\* one request at a time
One == {1}

Init ==
    /\ children = <<>>
    /\ activities = <<>>
    /\ nAct = 0
    /\ slots = [r \in One |-> IdleSlot]

Next ==
    \E r \in One :
        \/ Start(r, ChildInputs)
        \/ handle_create_child(r, ChildInputs)
        \/ handle_update_child(r, ChildInputs)
        \/ handle_update_child_lookup(r, ChildInputs)
        \/ handle_link_supervisor(r, ChildInputs)
        \/ handle_get_child_data(r, ChildInputs)
        \/ handle_get_child_data_read(r, ChildInputs)
        \/ handle_get_children_list_data(r, ChildInputs)
        \/ close_db(r)

Spec == Init /\ [][Next]_vars

(***************************************************************************)
(* SpecAct: the activity routes over children that parents created and     *)
(* supervisors were linked to, one request at a time, accepted credentials.*)
(***************************************************************************)
ActTokens ==
    { Tok("ok", "access", "a1", "parent"),
      Tok("ok", "access", "a2", "parent"),
      Tok("ok", "access", "a2", "teacher") }

ActivityPayloads ==
    { [child_id |-> ChildHex[k], type |-> "sleep", details |-> [quality |-> "restful"]] :
        k \in 1..MaxChildren }

ActQueries == { Query(c, None, None, None) : c \in ChildIds \cup {None} }

ActInputs ==
    [ops |-> {"create-child", "link-supervisor", "create-activity", "get-child",
              "list-activities", "delete-activity"},
     tokens |-> ActTokens, nets |-> {"up"}, child_ids |-> ChildIds,
     child_payloads |-> {[name |-> "Ana", birthday |-> "2022-02-20"]},
     link_payloads |-> {[supervisor_id |-> "a2"]},
     activity_payloads |-> ActivityPayloads, activity_ids |-> ActivityIds,
     queries |-> ActQueries]

NextAct ==
    \E r \in One :
        \/ Start(r, ActInputs)
        \/ handle_create_child(r, ActInputs)
        \/ handle_link_supervisor(r, ActInputs)
        \/ handle_add_activity(r, ActInputs)
        \/ handle_get_child_data(r, ActInputs)
        \/ handle_get_child_data_read(r, ActInputs)
        \/ handle_get_activities_data(r, ActInputs)
        \/ handle_get_activities_data_read(r, ActInputs)
        \/ handle_delete_activity(r, ActInputs)
        \/ handle_delete_activity_check(r, ActInputs)
        \/ handle_delete_activity_delete(r, ActInputs)
        \/ close_db(r)

SpecAct == Init /\ [][NextAct]_vars

(***************************************************************************)
(* SpecAll: all eight operations under every credential the validator      *)
(* rejects and two it accepts, with the store reachable or not.            *)
(***************************************************************************)
AllInputs ==
    [ops |-> Ops,
     tokens |-> UndecodedTokens \cup RejectedPayloads
                  \cup { Tok("ok", "access", "a1", "parent"),
                         Tok("ok", "access", "a2", "teacher") },
     nets |-> {"up", "down"}, child_ids |-> ChildIds,
     child_payloads |-> {[name |-> "Ana", birthday |-> "2022-02-20"]},
     update_payloads |-> {[group |-> "Butterflies", invalid_field |-> "x"]},
     link_payloads |-> {[supervisor_id |-> "a2"]},
     activity_payloads |-> ActivityPayloads, activity_ids |-> ActivityIds,
     queries |-> ActQueries]

NextAll ==
    \E r \in One :
        \/ Start(r, AllInputs)
        \/ handle_create_child(r, AllInputs)
        \/ handle_update_child(r, AllInputs)
        \/ handle_update_child_lookup(r, AllInputs)
        \/ handle_link_supervisor(r, AllInputs)
        \/ handle_add_activity(r, AllInputs)
        \/ handle_get_child_data(r, AllInputs)
        \/ handle_get_child_data_read(r, AllInputs)
        \/ handle_get_children_list_data(r, AllInputs)
        \/ handle_get_activities_data(r, AllInputs)
        \/ handle_get_activities_data_read(r, AllInputs)
        \/ handle_delete_activity(r, AllInputs)
        \/ handle_delete_activity_check(r, AllInputs)
        \/ handle_delete_activity_delete(r, AllInputs)
        \/ close_db(r)

SpecAll == Init /\ [][NextAll]_vars

(***************************************************************************)
(* SpecAllFair: SpecAll where a request that was received is served to the *)
(* end.  A handler runs its steps without waiting for anything but the     *)
(* store, whose commands return or time out, and Flask runs the teardown   *)
(* functions when the application context is popped.  Nothing obliges a    *)
(* request to arrive.                                                      *)
(***************************************************************************)
ServeAll(r) ==
    \/ handle_create_child(r, AllInputs)
    \/ handle_update_child(r, AllInputs)
    \/ handle_update_child_lookup(r, AllInputs)
    \/ handle_link_supervisor(r, AllInputs)
    \/ handle_add_activity(r, AllInputs)
    \/ handle_get_child_data(r, AllInputs)
    \/ handle_get_child_data_read(r, AllInputs)
    \/ handle_get_children_list_data(r, AllInputs)
    \/ handle_get_activities_data(r, AllInputs)
    \/ handle_get_activities_data_read(r, AllInputs)
    \/ handle_delete_activity(r, AllInputs)
    \/ handle_delete_activity_check(r, AllInputs)
    \/ handle_delete_activity_delete(r, AllInputs)
    \/ close_db(r)

NextAllFair == \E r \in One : Start(r, AllInputs) \/ ServeAll(r)

SpecAllFair == Init /\ [][NextAllFair]_vars /\ \A r \in One : WF_vars(ServeAll(r))

(***************************************************************************)
(* SpecData: the activity log of one child in detail, all eight            *)
(* operations, the store answering.  Activities of every shape the         *)
(* validation tells apart, with and without caller-supplied logged_by and  *)
(* created_at; listings by type and by date range.                         *)
(***************************************************************************)
DataTokens ==
    { Tok("ok", "access", "a1", "parent"),
      Tok("ok", "access", "a2", "teacher"),
      Tok("ok", "access", "a1", "admin") }

\* the body of POST /activities without the keys the service adds
Activity(type, details) == [child_id |-> "c1", type |-> type, details |-> details]

DataActivityPayloads ==
    { Activity("sleep", [quality |-> "restful"]),
      MongoSet(Activity("sleep", [quality |-> "restful"]), [logged_by |-> "a1"]),
      MongoSet(Activity("sleep", [quality |-> "restful"]), [created_at |-> JsonTime(1)]),
      Activity("drawing", EmptyDict),
      Activity("drawing", [title |-> "house"]),
      Activity("drawing", [image_url |-> ""]),
      Activity("drawing", [image_url |-> "x"]),
      [type |-> "sleep", details |-> [quality |-> "restful"]] }

DataQueries ==
    { Query("c1", None, None, None),
      Query("c1", "sleep", None, None),
      Query("c1", "meal", None, None),
      Query("c1", None, DateHex[2], None),
      Query("c1", None, None, DateHex[1]),
      Query("c1", None, DateHex[1], DateHex[1]),
      Query("c1", None, "21-04-2025", None) }

DataInputs ==
    [ops |-> Ops, tokens |-> DataTokens, nets |-> {"up"},
     child_ids |-> {"c1"},
     child_payloads |-> {[name |-> "Ana", birthday |-> "2022-02-20"]},
     update_payloads |-> {[group |-> "Butterflies", invalid_field |-> "x"]},
     link_payloads |-> {[supervisor_id |-> "a2"]},
     activity_payloads |-> DataActivityPayloads,
     activity_ids |-> ActivityIds, queries |-> DataQueries]

NextData ==
    \E r \in One :
        \/ Start(r, DataInputs)
        \/ handle_create_child(r, DataInputs)
        \/ handle_update_child(r, DataInputs)
        \/ handle_update_child_lookup(r, DataInputs)
        \/ handle_link_supervisor(r, DataInputs)
        \/ handle_add_activity(r, DataInputs)
        \/ handle_get_child_data(r, DataInputs)
        \/ handle_get_child_data_read(r, DataInputs)
        \/ handle_get_children_list_data(r, DataInputs)
        \/ handle_get_activities_data(r, DataInputs)
        \/ handle_get_activities_data_read(r, DataInputs)
        \/ handle_delete_activity(r, DataInputs)
        \/ handle_delete_activity_check(r, DataInputs)
        \/ handle_delete_activity_delete(r, DataInputs)
        \/ close_db(r)

SpecData == Init /\ [][NextData]_vars

(***************************************************************************)
(* SpecConc: two requests served at the same time (two workers, or two     *)
(* threads of one), each in its own application context.  The store        *)
(* executes one command at a time, and a command on one document is        *)
(* atomic, so a step of one request is a step of the model; the steps of   *)
(* the two requests interleave in every order.                             *)
(***************************************************************************)
Two == {1, 2}

ConcTokens ==
    { Tok("ok", "access", "a1", "parent"),
      Tok("ok", "access", "a1", "teacher"),
      Tok("ok", "access", "a2", "teacher") }

ConcInputs ==
    [ops |-> {"create-child", "link-supervisor", "create-activity", "delete-activity"},
     tokens |-> ConcTokens, nets |-> {"up"}, child_ids |-> {"c1"},
     child_payloads |-> {[name |-> "Ana", birthday |-> "2022-02-20"]},
     link_payloads |-> {[supervisor_id |-> "a1"], [supervisor_id |-> "a2"]},
     activity_payloads |-> {Activity("sleep", [quality |-> "restful"])},
     activity_ids |-> ActivityIds]

InitConc ==
    /\ children = <<>>
    /\ activities = <<>>
    /\ nAct = 0
    /\ slots = [r \in Two |-> IdleSlot]

NextConc ==
    \E r \in Two :
        \/ Start(r, ConcInputs)
        \/ handle_create_child(r, ConcInputs)
        \/ handle_link_supervisor(r, ConcInputs)
        \/ handle_add_activity(r, ConcInputs)
        \/ handle_delete_activity(r, ConcInputs)
        \/ handle_delete_activity_check(r, ConcInputs)
        \/ handle_delete_activity_delete(r, ConcInputs)
        \/ close_db(r)

SpecConc == InitConc /\ [][NextConc]_vars

(***************************************************************************)
(*                             Properties                                  *)
(***************************************************************************)
\* what a caller can put in a credential or a URL
AnyIdentity == {"a1", "a2", "zz", "", None}
AnyRole == {"parent", "teacher", "admin", "", None}
\* the ids the store can hand out, an id it never hands out, a string that
\* is no id, the empty string and no value
AnyId == ChildIds \cup {ChildHex[MaxChildren + 1], "", None}

\* a request context in which no connection was asked for yet
FreshG == [db |-> "unset", client |-> FALSE]

\* identity is a member of the list `field` of the child that child_id names
Linked(field, identity, child_id) ==
    /\ ObjectIdValid(child_id) /\ ObjectIdValid(identity)
    /\ ObjectId(child_id) \in DOMAIN children
    /\ InList(ObjectId(identity), children[ObjectId(child_id)][field])

\* the decision rule of the authorization engine
RoleRule(identity, role, child_id) ==
    \/ role = "parent" /\ Linked("parent_ids", identity, child_id)
    \/ role = "teacher" /\ Linked("supervisor_ids", identity, child_id)

Teardown(r) == slots[r].pc = "teardown"

\* C1: in every reachable store state and for every (identity, role, child
\* id), check_child_access (the store answering) is true exactly when the
\* role is parent and the identity is in the child's parent_ids, or the role
\* is teacher and the identity is in its supervisor_ids; malformed and
\* nonexistent child ids and every other role are denied.
C1_AccessRule ==
    \A identity \in AnyIdentity, role \in AnyRole, child_id \in AnyId :
        check_child_access(children, identity, role, child_id, FreshG, "up").ret
            = RoleRule(identity, role, child_id)

\* a1 is the parent of c1, which a2 supervises; a1 asks for c1 as a teacher
\* and is refused after the store answered the lookup
C1_Witness ==
    \E r \in DOMAIN slots :
        /\ Teardown(r) /\ slots[r].op = "get-child" /\ slots[r].id = "c1"
        /\ slots[r].uid = "a1" /\ slots[r].role = "teacher"
        /\ slots[r].status = 403 /\ slots[r].db = "ok"
        /\ Linked("supervisor_ids", "a2", "c1")
        /\ Linked("parent_ids", "a1", "c1")

\* the child a get-child or list-activities request names
RequestedChild(s) == IF s.op = "get-child" THEN s.id ELSE s.q.child_id

\* C2: get-child and list-activities go on to read, and answer 200 with
\* data, only when the access decision for (caller identity, caller role,
\* requested child) is true; a validated caller that is not linked to the
\* child it names gets 403 with the refusal message from both.
C2_DataOnlyWithAccess ==
    \A r \in DOMAIN slots :
        LET s == slots[r]
            allowed == RoleRule(s.uid, s.role, RequestedChild(s))
        IN  s.op \in {"get-child", "list-activities"} =>
              /\ s.pc \in {"get_child", "get_activities"} => allowed
              /\ Teardown(r) /\ s.status = 200 => allowed
              /\ Teardown(r) /\ ~FalsyStr(RequestedChild(s)) /\ ~allowed =>
                    s.status = 403 /\ s.body = Msg("forbidden")

\* a second parent asks for the activities of a child of the first parent,
\* which has one, and is refused
C2_Witness ==
    \E r \in DOMAIN slots, o \in DOMAIN activities :
        /\ Teardown(r) /\ slots[r].op = "list-activities"
        /\ slots[r].uid = "a2" /\ slots[r].role = "parent"
        /\ slots[r].q.child_id = "c1" /\ slots[r].status = 403
        /\ activities[o]["child_id"] = ObjectId("c1")
        /\ Linked("parent_ids", "a1", "c1")

\* the child an activity belongs to, as the string a response carries
OwningChild(o) == str(activities[o]["child_id"])

\* C3 (denied cases): a delete-activity request naming a stored activity by
\* a caller that is not a teacher supervising the activity's child has ended
\* Forbidden, the activity still stored.
C3_Denied ==
    \A r \in DOMAIN slots :
        LET s == slots[r] IN
        /\ Teardown(r) /\ s.op = "delete-activity"
        /\ ObjectIdValid(s.id) /\ ObjectId(s.id) \in DOMAIN activities
        /\ ~(s.role = "teacher"
               /\ Linked("supervisor_ids", s.uid, OwningChild(ObjectId(s.id))))
        => s.status = 403

\* C3 (removal): a step that removes an activity is a step of a
\* delete-activity request for that activity whose caller has role teacher
\* and is in supervisor_ids of the activity's child.
C3_Removal ==
    \A o \in DOMAIN activities \ DOMAIN activities' :
        \E r \in DOMAIN slots :
            /\ slots[r].op = "delete-activity" /\ slots[r].id = str(o)
            /\ slots[r].role = "teacher"
            /\ Linked("supervisor_ids", slots[r].uid, OwningChild(o))

\* C3: delete-activity removes an activity only for a teacher who supervises
\* the activity's child; a parent of that child and a teacher who supervises
\* only another child are Forbidden and the activity stays in the store.
C3_DeleteOnlyBySupervisor == [](C3_Denied) /\ [][C3_Removal]_vars

\* teacher a2 supervises c2 only, asks to delete an activity of c1 and is
\* refused; the activity is still stored
C3_Witness ==
    \E r \in DOMAIN slots :
        /\ Teardown(r) /\ slots[r].op = "delete-activity" /\ slots[r].status = 403
        /\ slots[r].uid = "a2" /\ slots[r].role = "teacher"
        /\ ObjectIdValid(slots[r].id) /\ ObjectId(slots[r].id) \in DOMAIN activities
        /\ OwningChild(ObjectId(slots[r].id)) = "c1"
        /\ Linked("supervisor_ids", "a2", "c2")
        /\ ~Linked("supervisor_ids", "a2", "c1")

\* a credential that is missing, malformed, expired, wrongly signed or of the
\* wrong type
InvalidCredential(tok) == tok.kind # "ok" \/ tok.type # "access"

\* the request in slot r has asked for a connection to the store, or is at a
\* step of its handler
InHandler(r) == slots[r].pc \notin {"idle", "teardown"}
TouchedStore(r) == slots[r].db # "unset" \/ slots[r].client

\* C4 (state part): a request is in its handler, or has contacted the store,
\* only after token_required let it through; a request with an invalid
\* credential has ended 401 with no connection asked for.
C4_ValidatedFirst ==
    \A r \in DOMAIN slots :
        /\ InHandler(r) \/ TouchedStore(r) => token_required(slots[r].tok).status = 0
        /\ slots[r].pc # "idle" /\ InvalidCredential(slots[r].tok) =>
              Teardown(r) /\ slots[r].status = 401 /\ ~TouchedStore(r)

\* C4 (step part): a step that changes the store is a step of a request that
\* token_required let through.
C4_WritesValidated ==
    children' # children \/ activities' # activities =>
        \E r \in DOMAIN slots :
            InHandler(r) /\ token_required(slots[r].tok).status = 0

\* C4: in every execution of the eight operations no store contact precedes
\* the successful validation of the credential, and a request whose
\* credential is missing, malformed, expired, wrongly signed or of the wrong
\* type ends Unauthorized without touching the store.
C4_CredentialFirst == [](C4_ValidatedFirst) /\ [][C4_WritesValidated]_vars

\* with a child stored, a delete-activity request carrying a refresh token
\* has ended 401 without a connection
C4_Witness ==
    \E r \in DOMAIN slots :
        /\ Teardown(r) /\ slots[r].op = "delete-activity"
        /\ slots[r].tok.kind = "ok" /\ slots[r].tok.type = "refresh"
        /\ slots[r].status = 401 /\ ~TouchedStore(r)
        /\ DOMAIN children # {} /\ DOMAIN activities # {}

\* C5 as stated: a decoded token is let through only with type "access" and
\* sub and role both present and non-empty; any other decoded token ends 401
\* and the wrapped operation is not run.
C5_RejectsEmptyClaims ==
    \A r \in DOMAIN slots :
        LET tok == slots[r].tok IN
        /\ slots[r].pc # "idle" /\ tok.kind = "ok"
        /\ tok.type # "access" \/ tok.sub \in {None, ""} \/ tok.role \in {None, ""}
        => Teardown(r) /\ slots[r].status = 401 /\ ~TouchedStore(r)

\* how many times x occurs in the list l
Count(x, l) == Cardinality({i \in DOMAIN l : l[i] = x})
NoDuplicates(l) == \A i, j \in DOMAIN l : l[i] = l[j] => i = j

\* the well-formed ids a supervisor can be named by
SupervisorIds == {UserHex[i] : i \in DOMAIN UserHex}

\* C6 (the function): from every reachable store, for every child id C and
\* supervisor id S, link_supervisor_to_child(C, S) returns true exactly when
\* C is stored; a second call returns the same and leaves the store of the
\* first call as it is, S once in supervisor_ids of C.
C6_TwiceIsOnce ==
    \A C \in AnyId, S \in SupervisorIds :
        LET once == link_supervisor_to_child(children, C, S, FreshG, "up")
            twice == link_supervisor_to_child(once.coll, C, S, once.g, "up")
            stored == ObjectIdValid(C) /\ ObjectId(C) \in DOMAIN children
        IN  /\ once.exc = "none" /\ once.ret = stored
            /\ twice.exc = "none" /\ twice.ret = stored
            /\ twice.coll = once.coll
            /\ stored => Count(ObjectId(S), once.coll[ObjectId(C)]["supervisor_ids"]) = 1
            /\ ~stored => once.coll = children

\* C6 (the route): a link-supervisor request for a well-formed child id, the
\* store answering, ends 200 exactly when the child is stored, with the
\* supervisor once in its supervisor_ids; when the supervisor was linked
\* already it ends 200 all the same and the store is unchanged.
C6_Relink ==
    \A r \in DOMAIN slots :
        /\ slots[r].pc = "handler" /\ slots[r].op = "link-supervisor"
        /\ slots'[r].pc = "teardown" /\ ObjectIdValid(slots'[r].id)
        => LET C == slots'[r].id
               S == ObjectId(slots'[r].data["supervisor_id"])
               stored == ObjectId(C) \in DOMAIN children
           IN  /\ (slots'[r].status = 200) = stored
               /\ ~stored => slots'[r].status = 404 /\ children' = children
               /\ stored => Count(S, children'[ObjectId(C)]["supervisor_ids"]) = 1
               /\ stored /\ InList(S, children[ObjectId(C)]["supervisor_ids"])
                    => children' = children

\* C6: add-supervisor is idempotent: calling it twice for a child and a
\* supervisor leaves the supervisor_ids that calling it once leaves, the
\* supervisor in it exactly once; both calls return true when the child
\* exists, whether or not the list changed, and false when it does not.
C6_AddSupervisorIdempotent == [](C6_TwiceIsOnce) /\ [][C6_Relink]_vars

\* a link-supervisor request for c1 and a2 has ended 200 and a2 is once in
\* the supervisor_ids of c1: the next call for the pair is a repeated one
C6_Witness ==
    \E r \in DOMAIN slots :
        /\ Teardown(r) /\ slots[r].op = "link-supervisor" /\ slots[r].status = 200
        /\ slots[r].id = "c1" /\ slots[r].data = [supervisor_id |-> "a2"]
        /\ Linked("supervisor_ids", "a2", "c1")
        /\ Count(ObjectId("a2"), children[ObjectId("c1")]["supervisor_ids"]) = 1

\* the keys the spec lets update-child change, and the keys of a child it
\* must never change
AllowList == {"group", "allergies", "notes", "name", "birthday"}
Protected == {"_id", "parent_ids", "supervisor_ids", "created_at"}

\* C7 (the step): a step of an update-child request changes at most the
\* child the request names; when the request ends 200 every allow-listed key
\* of the payload has the payload's value in that child and every other key
\* of the child is as before, no key added; when it does not end 200 the
\* store is unchanged.
C7_Update ==
    \A r \in DOMAIN slots :
        slots[r].pc = "handler" /\ slots[r].op = "update-child" =>
            LET t == slots'[r]
                data == t.data
            IN  IF t.pc = "teardown" /\ t.status = 200
                THEN LET o == ObjectId(t.id) IN
                     /\ o \in DOMAIN children /\ DOMAIN children' = DOMAIN children
                     /\ \A x \in DOMAIN children \ {o} : children'[x] = children[x]
                     /\ DOMAIN children'[o] \subseteq DOMAIN children[o] \cup AllowList
                     /\ \A k \in DOMAIN children'[o] :
                           IF k \in AllowList /\ k \in DOMAIN data
                           THEN children'[o][k] = data[k]
                           ELSE k \in DOMAIN children[o]
                                  /\ children'[o][k] = children[o][k]
                ELSE children' = children

\* C7 (the store): no stored child has a key outside the fields of a child.
C7_NoForeignKey ==
    \A o \in DOMAIN children : DOMAIN children[o] \subseteq AllowList \cup Protected

\* C7: update-child applies only the keys of the allow-list {group,
\* allergies, notes, name, birthday}: allowed keys take the payload's value,
\* no disallowed key appears in the stored record, and _id, parent_ids,
\* supervisor_ids and created_at stay as they were even when named.
C7_AllowListOnly == [](C7_NoForeignKey) /\ [][C7_Update]_vars

\* an update naming group, notes, invalid_field, parent_ids, supervisor_ids
\* and created_at has ended 200 on a supervised child: group and notes are
\* the payload's, the parent and the supervisor are still there
C7_Witness ==
    \E r \in DOMAIN slots :
        /\ Teardown(r) /\ slots[r].op = "update-child" /\ slots[r].status = 200
        /\ {"invalid_field", "parent_ids", "supervisor_ids", "created_at"}
              \subseteq DOMAIN slots[r].data
        /\ LET c == children[ObjectId(slots[r].id)] IN
              /\ c["group"] = "Butterflies" /\ c["notes"] = "updated"
              /\ c["parent_ids"] = <<ObjectId("a1")>>
              /\ c["supervisor_ids"] = <<ObjectId("a2")>>
              /\ c["created_at"].kind = "date"

C9_Create ==
    \A r \in DOMAIN slots :
        /\ slots[r].pc = "handler" /\ slots[r].op = "create-child"
        /\ slots'[r].pc = "teardown" /\ slots'[r].status = 201
        => LET P == slots[r].uid
               id == slots'[r].body["child_id"]
               o == ObjectId(id)
               data == slots'[r].data
               got == get_child_by_id(children', id, FreshG, "up").ret
           IN  /\ slots[r].role = "parent" /\ ObjectIdValid(id)
               /\ o \notin DOMAIN children
               /\ DOMAIN children' = DOMAIN children \cup {o}
               /\ \A x \in DOMAIN children : children'[x] = children[x]
               /\ children'[o]["parent_ids"] = <<ObjectId(P)>>
               /\ children'[o]["supervisor_ids"] = <<>>
               /\ children'[o]["allergies"] =
                     (IF "allergies" \in DOMAIN data THEN data["allergies"] ELSE <<>>)
               /\ children'[o]["notes"] =
                     (IF "notes" \in DOMAIN data THEN data["notes"] ELSE "")
               /\ check_child_access(children', P, "parent", id, FreshG, "up").ret
               /\ got["_id"] = id
               /\ got["parent_ids"] = <<P>> /\ got["supervisor_ids"] = <<>>

\* C9 (the read): a get-child request that ends 200 carries the stored
\* child it named, its references in string form.
C9_Get ==
    \A r \in DOMAIN slots :
        Teardown(r) /\ slots[r].op = "get-child" /\ slots[r].status = 200
        => LET c == children[ObjectId(slots[r].id)] IN
           /\ slots[r].body = serialize_doc(c)
           /\ slots[r].body["_id"] = slots[r].id
           /\ \A i \in DOMAIN c["parent_ids"] :
                 slots[r].body["parent_ids"][i] = str(c["parent_ids"][i])

\* C9: a successful create-child by parent P returns a new child id and
\* stores a child with parent_ids = [P], supervisor_ids = [], allergies
\* defaulting to [] and notes to ""; a get-child by P right after returns
\* that record with parent_ids == [P] and supervisor_ids == [] in string
\* form.
C9_CreateThenGet == [](C9_Get) /\ [][C9_Create]_vars

\* parent a1 created a child without allergies and notes and has read it
\* back: the answer names a1 as the only parent and no supervisor
C9_Witness ==
    \E r \in DOMAIN slots :
        /\ Teardown(r) /\ slots[r].op = "get-child" /\ slots[r].status = 200
        /\ slots[r].uid = "a1" /\ slots[r].role = "parent"
        /\ slots[r].body["name"] = "Ana"
        /\ slots[r].body["parent_ids"] = <<"a1">>
        /\ slots[r].body["supervisor_ids"] = <<>>
        /\ slots[r].body["allergies"] = <<>> /\ slots[r].body["notes"] = ""

\* name or birthday absent or empty in the body of a create-child request
MissingRequired(data) ==
    \/ "name" \notin DOMAIN data \/ "birthday" \notin DOMAIN data
    \/ data["name"] = "" \/ data["birthday"] = ""

\* the outcome of the step that serves a create-child request whose body
\* lacks name or birthday, for the callers that satisfy `who`
CreateWithoutRequired(who(_), status) ==
    \A r \in DOMAIN slots :
        /\ slots[r].pc = "handler" /\ slots[r].op = "create-child"
        /\ who(slots[r]) /\ MissingRequired(slots'[r].data)
        => /\ slots'[r].pc = "teardown" /\ slots'[r].status = status
           /\ slots'[r].db = "unset" /\ ~slots'[r].client
           /\ children' = children

AnyCaller(s) == TRUE
ParentCaller(s) == s.role = "parent"
OtherCaller(s) == s.role # "parent"

\* C10 as stated: every create-child request that passed credential
\* validation and has name or birthday absent or empty ends 400, with no
\* store contact and no child inserted.
C10_AnyCaller400 == [][CreateWithoutRequired(AnyCaller, 400)]_vars

\* C10, amended: a create-child request by a caller with role parent that
\* has name or birthday absent or empty ends 400, never 500, with no store
\* contact and no child inserted; by a caller with any other role it ends
\* 403, again with no store contact and no child inserted.
C10_ParentCaller400 ==
    [][CreateWithoutRequired(ParentCaller, 400)
         /\ CreateWithoutRequired(OtherCaller, 403)]_vars

\* with a child stored, parent a1 has sent a body without birthday and got
\* 400, no connection asked for
C10_Witness ==
    \E r \in DOMAIN slots :
        /\ Teardown(r) /\ slots[r].op = "create-child" /\ slots[r].role = "parent"
        /\ slots[r].data = [name |-> "Ana"] /\ slots[r].status = 400
        /\ ~TouchedStore(r) /\ DOMAIN children # {}


\* C11: a child is never deleted: every step of every operation of the
\* surface keeps every child id that is in the store, with its _id and its
\* created_at.
C11_ChildNeverDeleted ==
    [][\A o \in DOMAIN children :
          /\ o \in DOMAIN children'
          /\ children'[o]["_id"] = children[o]["_id"]
          /\ children'[o]["created_at"] = children[o]["created_at"]]_vars

\* the store holds a child whose details were updated and whose supervisor
\* deleted one of its activities; the delete request is answered
C11_Witness ==
    \E r \in DOMAIN slots, o \in DOMAIN children :
        /\ Teardown(r) /\ slots[r].op = "delete-activity" /\ slots[r].status = 200
        /\ Has(children[o], "group") /\ children[o]["group"] = "Butterflies"
        /\ nAct > 0 /\ activities = <<>>


\* C12: in every reachable state the child_id of every stored activity is
\* the id of a child in the store.
C12_ActivityChildExists ==
    \A o \in DOMAIN activities : activities[o]["child_id"] \in DOMAIN children

\* C13: a step of create-activity inserts an activity only when the caller
\* has role teacher and its identity is in supervisor_ids of the child the
\* activity names.
C13_CreatedBySupervisorOnly ==
    [][\A r \in DOMAIN slots :
          DOMAIN activities' \ DOMAIN activities # {} =>
              /\ slots[r].role = "teacher"
              /\ Linked("supervisor_ids", slots[r].uid, slots'[r].data["child_id"])]_vars


\* the activities a step inserts
Inserted == DOMAIN activities' \ DOMAIN activities

\* C14: every activity that create-activity stores carries, as logged_by,
\* the identity of the validated credential of the request that created it,
\* and two requests of one caller that differ only in a logged_by the caller
\* put in the body store the same record.
C14_Stamped ==
    \A r \in DOMAIN slots, o \in Inserted :
        /\ slots[r].op = "create-activity"
        /\ activities'[o]["logged_by"] = ObjectId(slots[r].uid)

C14_SuppliedIgnored ==
    \A r \in DOMAIN slots :
        slots[r].pc = "handler" /\ slots[r].op = "create-activity" =>
            \A data \in DataActivityPayloads, supplied \in {"a1", "a2", "zz", ""} :
                LET with == MongoSet(data, [logged_by |-> supplied])
                    one == add_activity_record(activities, nAct,
                               stamp_logged_by(data, slots[r].uid), FreshG, "up")
                    two == add_activity_record(activities, nAct,
                               stamp_logged_by(with, slots[r].uid), FreshG, "up")
                IN  one.exc = two.exc /\ one.coll = two.coll

C14_LoggedByIsCaller == [](C14_SuppliedIgnored) /\ [][C14_Stamped]_vars

\* the teacher a2 sent a body that names a1 as logged_by; the activity is
\* stored with logged_by a2
C14_Witness ==
    \E r \in DOMAIN slots, o \in DOMAIN activities :
        /\ Teardown(r) /\ slots[r].op = "create-activity" /\ slots[r].status = 201
        /\ slots[r].uid = "a2"
        /\ Has(slots[r].data, "logged_by") /\ slots[r].data["logged_by"] = "a1"
        /\ slots[r].body = [activity_id |-> str(o)]
        /\ activities[o]["logged_by"] = ObjectId("a2")


\* details carries a non-empty image_url
HasImage(data) ==
    /\ Has(data, "details") /\ IsDictValue(data["details"])
    /\ ~NotStr(data["details"], "image_url")

\* the fields of a body that every activity needs are present and valid
WellFormed(data) ==
    /\ ~NotStr(data, "child_id") /\ ObjectIdValid(data["child_id"])
    /\ ~NotStr(data, "type")
    /\ ~FalsyDetails(data) /\ IsDictValue(data["details"])

IsDrawing(data) == Has(data, "type") /\ data["type"] = "drawing"

\* C15: a create-activity request of type drawing whose details carry no
\* non-empty image_url (details = {} included) is answered with the
\* validation failure (400) and stores nothing; with a non-empty image_url
\* and the other fields valid it succeeds (201); a request of another type
\* with valid fields succeeds without an image_url.
C15_Answer ==
    \A r \in DOMAIN slots :
        LET s == slots[r] IN
        Teardown(r) /\ s.op = "create-activity" /\ s.role # "<unset>" =>
            /\ IsDrawing(s.data) /\ ~HasImage(s.data) => s.status = 400
            /\ WellFormed(s.data) /\ ObjectIdValid(s.uid)
                  /\ (IsDrawing(s.data) => HasImage(s.data)) => s.status = 201

C15_Stored ==
    \A r \in DOMAIN slots :
        slots[r].op = "create-activity" /\ Teardown(r)' =>
            IF slots'[r].status = 201
            THEN \E o \in Inserted :
                    /\ Inserted = {o}
                    /\ activities'[o]["type"] = slots'[r].data["type"]
                    /\ activities'[o]["details"] = slots'[r].data["details"]
            ELSE activities' = activities

C15_DrawingNeedsImage == [](C15_Answer) /\ [][C15_Stored]_vars

\* a drawing with an image_url is stored, and a drawing whose details hold
\* only a title has just been refused
C15_Witness ==
    \E r \in DOMAIN slots, o \in DOMAIN activities :
        /\ Teardown(r) /\ slots[r].op = "create-activity" /\ slots[r].status = 400
        /\ slots[r].data = Activity("drawing", [title |-> "house"])
        /\ activities[o]["type"] = "drawing"
        /\ activities[o]["details"] = [image_url |-> "x"]


\* the activities a step removes
Removed == DOMAIN activities \ DOMAIN activities'

\* C16: a stored activity is never updated in place.  A step that inserts
\* an activity is a create-activity step and gives it a fresh id and, as
\* created_at, the value of the body when the body carries one and the
\* insertion time otherwise; every activity that is in the store before and
\* after a step is the same record, created_at included; an activity leaves
\* the store only by the delete step of a delete-activity request for its id.
C16_Insert ==
    \A o \in Inserted : \E r \in DOMAIN slots :
        /\ slots[r].op = "create-activity" /\ Inserted = {o}
        /\ o = ActOid(nAct') /\ nAct' = nAct + 1
        /\ activities'[o]["created_at"] =
              IF Has(slots'[r].data, "created_at")
              THEN slots'[r].data["created_at"] ELSE DateTime(utcnow)

C16_Keep ==
    \A o \in DOMAIN activities \cap DOMAIN activities' :
        activities'[o] = activities[o]

C16_Remove ==
    \A o \in Removed : \E r \in DOMAIN slots :
        /\ slots[r].op = "delete-activity" /\ slots[r].pc = "delete"
        /\ slots[r].id = str(o) /\ Removed = {o}

C16_NeverUpdatedInPlace == [][C16_Insert /\ C16_Keep /\ C16_Remove]_vars

\* an activity whose body carried a created_at is stored with it, next to
\* the insertions and the removal of another activity and an update of the
\* child it belongs to
C16_Witness ==
    \E r \in DOMAIN slots, o \in DOMAIN activities, c \in DOMAIN children :
        /\ Teardown(r) /\ slots[r].op = "update-child" /\ slots[r].status = 200
        /\ activities[o]["created_at"] = JsonTime(1)
        /\ activities[o]["child_id"] = c
        /\ nAct = MaxActivities /\ Cardinality(DOMAIN activities) = 1


\* the bounds of the date range a query asks for (the dates are valid)
Lower(q) == IF FalsyStr(q.start_date) THEN NoDate ELSE SomeDate(strptime(q.start_date))
Upper(q) == IF FalsyStr(q.end_date) THEN NoDate
            ELSE SomeDate(strptime(q.end_date) + OneDay)
DatesValid(q) ==
    /\ FalsyStr(q.start_date) \/ DateValid(q.start_date)
    /\ FalsyStr(q.end_date) \/ DateValid(q.end_date)

\* the stored activity o is one the query q asks for.  A created_at that is
\* not a datetime (a value a caller sent in the body) is in no date range.
Matches(o, q) ==
    LET d == activities[o] IN
    /\ str(d["child_id"]) = q.child_id
    /\ FalsyStr(q.type) \/ d["type"] = q.type
    /\ Lower(q).has => d["created_at"].kind = "date" /\ d["created_at"].v >= Lower(q).v
    /\ Upper(q).has => d["created_at"].kind = "date" /\ d["created_at"].v < Upper(q).v

Matching(q) == {o \in DOMAIN activities : Matches(o, q)}

\* a is later than b in the order of the store
Later(a, b) == TimeGE(a, b) /\ ~TimeGE(b, a)

\* a list-activities request that was let through to the read
ListAnswered(r) ==
    /\ Teardown(r) /\ slots[r].op = "list-activities"
    /\ RoleRule(slots[r].uid, slots[r].role, slots[r].q.child_id)
    /\ DatesValid(slots[r].q)

\* C17: list-activities answers 200 with exactly the activities that match
\* the child id and the type and date filters of the query, each once and
\* rendered by serialize_doc, newest first, strictly so when their
\* created_at are pairwise distinct; when nothing matches the answer is
\* 200 with the empty list.
C17_ListIsExactAndDescending ==
    \A r \in DOMAIN slots :
        ListAnswered(r) =>
            LET body == slots[r].body
                hits == Matching(slots[r].q)
            IN
            /\ slots[r].status = 200
            /\ Len(body) = Cardinality(hits)
            /\ \A o \in hits : \E i \in DOMAIN body : body[i] = serialize_doc(activities[o])
            /\ hits = {} => body = <<>>
            /\ \A i, j \in DOMAIN body :
                  i < j => TimeGE(body[i]["created_at"], body[j]["created_at"])
            /\ (\A x, y \in hits :
                    x # y => activities[x]["created_at"] # activities[y]["created_at"])
                  => \A i, j \in DOMAIN body :
                        i < j => Later(body[i]["created_at"], body[j]["created_at"])

\* the parent lists the two activities of the child, logged at different
\* times: the later one comes first
C17_Witness ==
    \E r \in DOMAIN slots :
        /\ ListAnswered(r) /\ slots[r].status = 200
        /\ slots[r].q = Query("c1", None, None, None)
        /\ Len(slots[r].body) = 2
        /\ slots[r].body[1]["created_at"].kind = "date"
        /\ slots[r].body[2]["created_at"].kind = "date"
        /\ slots[r].body[1]["created_at"].v > slots[r].body[2]["created_at"].v


\* the activity o is in the list a request was answered with
Listed(r, o) == \E i \in DOMAIN slots[r].body : slots[r].body[i]["_id"] = str(o)

AnyActivityId == ActivityIds \cup {ActHex[MaxActivities + 1], ""}

Stored(activity_id) ==
    ObjectIdValid(activity_id) /\ ObjectId(activity_id) \in DOMAIN activities

\* C19: delete_activity_record (the store answering) returns true exactly
\* when a record with the id is in the store, and then removes that record
\* and no other; for a well-formed id that matches nothing and for a
\* malformed id it returns false, raises nothing and changes nothing.
C19_Store ==
    \A r \in DOMAIN slots :
        slots[r].op = "delete-activity" =>
            \A activity_id \in AnyActivityId :
                LET res == delete_activity_record(activities, activity_id, FreshG, "up") IN
                /\ res.exc = "none"
                /\ res.ret = Stored(activity_id)
                /\ res.coll = IF Stored(activity_id)
                              THEN [o \in DOMAIN activities \ {ObjectId(activity_id)}
                                       |-> activities[o]]
                              ELSE activities

\* a teacher that names an activity id that matches nothing is answered 404,
\* and no delete-activity request of a teacher ends in a fault
C19_Route ==
    \A r \in DOMAIN slots :
        slots[r].op = "delete-activity" /\ slots[r].role = "teacher" =>
            /\ Teardown(r) => slots[r].status \in {200, 403, 404}
            /\ slots[r].pc = "handler" /\ ~Stored(slots'[r].id)
                  => Teardown(r)' /\ slots'[r].status = 404
            /\ Teardown(r)' /\ slots'[r].status = 200
                  => ~Stored(slots[r].id)' /\ Removed = {ObjectId(slots[r].id)}
            /\ Teardown(r)' /\ slots'[r].status # 200 => Removed = {}

\* an id that was handed out and is absent stays absent, so a removed
\* activity is found by no later read
C19_StaysAbsent ==
    \A k \in 1..nAct :
        ActOid(k) \notin DOMAIN activities => ActOid(k) \notin DOMAIN activities'

C19_DeleteTrueIffRemoved ==
    [](C19_Store) /\ [][C19_Route /\ C19_StaysAbsent]_vars

\* the teacher deleted the first activity and asks to delete it again: 404
C19_Witness ==
    \E r \in DOMAIN slots :
        /\ Teardown(r) /\ slots[r].op = "delete-activity" /\ slots[r].role = "teacher"
        /\ slots[r].id = ActHex[1] /\ slots[r].status = 404
        /\ nAct >= 1 /\ ~Stored(ActHex[1])


\* the projections of the children that name the identity in the field
Projections(field, identity) ==
    { [_id |-> str(o), name |-> children[o]["name"]] :
        o \in {c \in DOMAIN children : Linked(field, identity, str(c))} }

\* the list holds exactly the elements of the set, each once
ListOf(l, S) == Len(l) = Cardinality(S) /\ \A x \in S : InList(x, l)

LinkField(role) == IF role = "parent" THEN "parent_ids" ELSE "supervisor_ids"

\* C20: for every identity, get_children_for_parent (the store answering)
\* returns exactly the children whose parent_ids contain it and
\* get_children_for_supervisor exactly those whose supervisor_ids contain
\* it, each as the pair of id and name.  list-children answers a parent
\* from the first and a teacher from the second, with nothing but children
\* linked to the caller in that role, and answers every other role 403
\* with a message and no list.
C20_Store ==
    \A identity \in AnyIdentity :
        /\ ListOf(get_children_for_parent(children, identity, FreshG, "up").ret,
                  Projections("parent_ids", identity))
        /\ ListOf(get_children_for_supervisor(children, identity, FreshG, "up").ret,
                  Projections("supervisor_ids", identity))

C20_Route ==
    \A r \in DOMAIN slots :
        Teardown(r) /\ slots[r].op = "list-children"
              /\ token_required(slots[r].tok).status = 0 =>
            LET s == slots[r] IN
            IF s.role \in {"parent", "teacher"}
            THEN /\ s.status \in {200, 500}
                 /\ s.status = 200 =>
                       /\ \A i \in DOMAIN s.body :
                             s.body[i] \in Projections(LinkField(s.role), s.uid)
                       /\ s.body # <<>> =>
                             ListOf(s.body, Projections(LinkField(s.role), s.uid))
            ELSE s.status = 403 /\ s.body = Msg("invalid role")

C20_ListChildrenByRole == C20_Store /\ C20_Route

\* two children are stored and the teacher a2 supervises one of them: its
\* list holds that one
C20_Witness ==
    \E r \in DOMAIN slots :
        /\ Teardown(r) /\ slots[r].op = "list-children" /\ slots[r].status = 200
        /\ slots[r].uid = "a2" /\ slots[r].role = "teacher"
        /\ Cardinality(DOMAIN children) = 2
        /\ Len(slots[r].body) = 1
        /\ Cardinality(Projections("parent_ids", "a1")) = 2


\* the conditions under which a store command fails on an open connection
CommandFaults == {"drop", "operr"}

\* C21: a failure of the store during an operation is raised to the caller
\* and never turned into another outcome: a listing of the children of an
\* identity that returns without raising, whatever the network does during
\* the command, is the listing of the children linked to that identity.
C21_StoreFailureSurfaced ==
    \A identity \in AnyIdentity, net \in CommandFaults :
        LET p == get_children_for_parent(children, identity, FreshG, net)
            s == get_children_for_supervisor(children, identity, FreshG, net)
        IN  /\ p.exc = "none" => ListOf(p.ret, Projections("parent_ids", identity))
            /\ s.exc = "none" => ListOf(s.ret, Projections("supervisor_ids", identity))


\* a request that passed token_required
Validated(r) == token_required(slots[r].tok).status = 0

\* C22: an update-child or link-supervisor request that names a child id,
\* or a supervisor id, which does not parse into a reference is answered as
\* a validation failure or as not found, never as a server fault.
C22_MalformedIdNot500 ==
    \A r \in DOMAIN slots :
        LET s == slots[r] IN
        /\ Teardown(r) /\ Validated(r)
        /\ s.op \in {"update-child", "link-supervisor"}
        /\ \/ ~ObjectIdValid(s.id)
           \/ /\ s.op = "link-supervisor"
              /\ ~NotStr(s.data, "supervisor_id")
              /\ ~ObjectIdValid(s.data["supervisor_id"])
        => s.status \in {400, 404}


\* the payload names no key of the allow-list
NothingAllowed(data) == \A k \in DOMAIN data : k \notin allowed_updates

\* C23: update_child_details with a payload that names no allow-listed key
\* returns false and leaves the request scope as it found it: no connection
\* is acquired and no command is sent, whatever the state of the network.
C23_EmptyUpdateWithoutStore ==
    \A child_id \in AnyId \ {None}, data \in UpdatePayloads, net \in Net :
        NothingAllowed(data) =>
            LET res == update_child_details(children, child_id, data, FreshG, net) IN
            /\ res.exc = "none" /\ ~res.ret
            /\ res.g = FreshG
            /\ res.coll = children


\* the activities of the child of an answered listing that carry a datetime
\* and pass the type filter
Dated(r) ==
    { o \in DOMAIN activities :
        /\ str(activities[o]["child_id"]) = slots[r].q.child_id
        /\ activities[o]["created_at"].kind = "date"
        /\ FalsyStr(slots[r].q.type) \/ activities[o]["type"] = slots[r].q.type }

\* a listing with an end_date that was answered with a list
EndDated(r) ==
    ListAnswered(r) /\ slots[r].status = 200 /\ ~FalsyStr(slots[r].q.end_date)

C26_OneClient ==
    \A r \in DOMAIN slots :
        LET s == slots[r] IN
        /\ s.pc = "idle" => s.db = "unset" /\ ~s.client
        /\ s.client <=> s.db # "unset"
        /\ s.db # "unset" =>
              \A net \in Net :
                  LET c == get_db(G(s), net) IN
                  /\ c.db = s.db /\ c.client = s.client
                  /\ c.exc = IF s.db = "failed" THEN "ConnectionFailure" ELSE "none"

\* within a request the scope changes only by the first get_db; the
\* teardown empties it
C26_Scope ==
    \A r \in DOMAIN slots :
        \/ slots'[r].db = slots[r].db /\ slots'[r].client = slots[r].client
        \/ slots[r].db = "unset" /\ slots'[r].client
        \/ Teardown(r) /\ slots'[r] = IdleSlot

\* on every exit path the client of the scope is closed and removed
C26_Released ==
    \A r \in One : slots[r].client ~> ~slots[r].client

C26_ScopedConnection == [](C26_OneClient) /\ [][C26_Scope]_vars /\ C26_Released

\* a request whose connection could not be established is answered 500 and
\* waits for its teardown with the client it opened
C26_Witness ==
    \E r \in DOMAIN slots :
        /\ Teardown(r) /\ slots[r].status = 500
        /\ slots[r].db = "failed" /\ slots[r].client


\* the step is the one of a link-supervisor request for child o and
\* supervisor identity S
LinkStep(o, S) ==
    \E r \in DOMAIN slots :
        /\ slots[r].pc = "handler" /\ slots[r].op = "link-supervisor"
        /\ slots'[r].id = str(o)
        /\ Get(slots'[r].data, "supervisor_id") = S

\* C27: access is monotonic.  Every step keeps every child and its
\* parent_ids; supervisor_ids changes only in the step of a link-supervisor
\* request for that child, by the one entry the request names, appended;
\* a child enters the store without supervisors.  So an access decision
\* that is true stays true, and a teacher identity gains access to a child
\* only in the step of a link-supervisor request that names the identity
\* and the child.
C27_Links ==
    /\ \A o \in DOMAIN children :
          /\ o \in DOMAIN children'
          /\ children'[o]["parent_ids"] = children[o]["parent_ids"]
          /\ \/ children'[o]["supervisor_ids"] = children[o]["supervisor_ids"]
             \/ \E S \in SupervisorIds :
                   /\ LinkStep(o, S)
                   /\ ~InList(ObjectId(S), children[o]["supervisor_ids"])
                   /\ children'[o]["supervisor_ids"] =
                         Append(children[o]["supervisor_ids"], ObjectId(S))
    /\ \A o \in DOMAIN children' \ DOMAIN children :
          children'[o]["supervisor_ids"] = <<>>

C27_Decision ==
    \A identity \in AnyIdentity, role \in AnyRole, child_id \in AnyId :
        /\ RoleRule(identity, role, child_id) => RoleRule(identity, role, child_id)'
        /\ role = "teacher" /\ ~RoleRule(identity, role, child_id)
              /\ RoleRule(identity, role, child_id)'
              => LinkStep(ObjectId(child_id), identity)

C27_AccessMonotonic == [][C27_Links /\ C27_Decision]_vars

\* a2 was linked to the first child and a later request created the second:
\* a2 supervises the first and not the second
C27_Witness ==
    \E r \in DOMAIN slots :
        /\ Teardown(r) /\ slots[r].op = "create-child" /\ slots[r].status = 201
        /\ Cardinality(DOMAIN children) = 2
        /\ RoleRule("a2", "teacher", "c1") /\ ~RoleRule("a2", "teacher", "c2")
        /\ RoleRule("a1", "parent", "c1") /\ RoleRule("a1", "parent", "c2")


ReadOps == {"get-child", "list-children", "list-activities"}

StoreChanges == children' # children \/ activities' # activities \/ nAct' # nAct

\* C30: a step that changes the store is the last step of a request of a
\* writing operation, and that request is answered with success (200, 201).
\* A request is served alone, so a request that ends as Unauthorized (401),
\* Forbidden (403), ValidationError (400), NotFound (404) or with a fault
\* has changed nothing in any of its steps, and no step of get-child,
\* list-children or list-activities, nor any access decision, changes the
\* store.
C30_Step ==
    \A r \in DOMAIN slots :
        StoreChanges =>
            /\ slots[r].pc \notin {"idle", "teardown"}
            /\ slots[r].op \notin ReadOps
            /\ Teardown(r)' /\ slots'[r].status \in {200, 201}

C30_FailuresChangeNothing == [][C30_Step]_vars

\* with a child and an activity in the store, a teacher's request to delete
\* an activity that is not there has ended 404
C30_Witness ==
    \E r \in DOMAIN slots :
        /\ Teardown(r) /\ slots[r].op = "delete-activity" /\ slots[r].status = 404
        /\ slots[r].role = "teacher"
        /\ DOMAIN children # {} /\ DOMAIN activities # {}


\* the link-supervisor requests that were answered 200 and are not yet torn
\* down, as pairs of child and supervisor
Acknowledged ==
    { <<ObjectId(slots[r].id), ObjectId(slots[r].data["supervisor_id"])>> :
        r \in { x \in DOMAIN slots :
                  /\ Teardown(x) /\ slots[x].op = "link-supervisor"
                  /\ slots[x].status = 200 } }

\* C25: link-supervisor requests for one child that run at the same time,
\* with the same or with different supervisor ids, in any interleaving,
\* leave every requested id in supervisor_ids exactly once.  Every
\* acknowledged request finds its id in the list, no id is in the list
\* twice, and no step takes an id out of the list.
C25_AllLinked ==
    /\ \A p \in Acknowledged :
          /\ p[1] \in DOMAIN children
          /\ Count(p[2], children[p[1]]["supervisor_ids"]) = 1
    /\ \A o \in DOMAIN children : NoDuplicates(children[o]["supervisor_ids"])

C25_NoneLost ==
    \A o \in DOMAIN children :
        /\ o \in DOMAIN children'
        /\ \A S \in SupervisorIds :
              InList(ObjectId(S), children[o]["supervisor_ids"])
                 => InList(ObjectId(S), children'[o]["supervisor_ids"])

C25_ConcurrentLinks == [](C25_AllLinked) /\ [][C25_NoneLost]_vars

\* two requests that were in their handlers at the same time linked a1 and
\* a2 to the same child; both are acknowledged and both ids are in the list
C25_Witness ==
    /\ \A r \in Two :
          /\ Teardown(r) /\ slots[r].op = "link-supervisor" /\ slots[r].status = 200
          /\ slots[r].id = "c1"
    /\ slots[1].data = [supervisor_id |-> "a1"]
    /\ slots[2].data = [supervisor_id |-> "a2"]
    /\ Linked("supervisor_ids", "a1", "c1") /\ Linked("supervisor_ids", "a2", "c1")
    /\ Len(children[ObjectId("c1")]["supervisor_ids"]) = 2


\* C28: delete-activity reads the activity, checks the supervision and
\* deletes in three steps, between which the other request takes steps.
\* A request that has passed the check and waits to delete is by a teacher
\* who is, in every state until the delete, in supervisor_ids of the child
\* the activity was read with, and an activity that is still stored under
\* the id still belongs to that child; so the step that removes an activity
\* is taken for a caller who at that moment supervises its child.
C28_CheckHolds ==
    \A r \in DOMAIN slots :
        slots[r].pc = "delete" =>
            /\ slots[r].role = "teacher"
            /\ Linked("supervisor_ids", slots[r].uid, slots[r].loc)
            /\ Stored(slots[r].id) =>
                  OwningChild(ObjectId(slots[r].id)) = slots[r].loc

C28_RemovalByCurrentSupervisor ==
    \A o \in Removed :
        \E r \in DOMAIN slots :
            /\ slots[r].pc = "delete" /\ slots'[r].pc = "teardown"
            /\ slots[r].id = str(o) /\ slots'[r].status = 200
            /\ slots[r].role = "teacher"
            /\ Linked("supervisor_ids", slots[r].uid, OwningChild(o))

C28_CheckStillValidAtDelete ==
    [](C28_CheckHolds) /\ [][C28_RemovalByCurrentSupervisor]_vars

\* the teacher a2 has passed the check for the first activity and has not
\* deleted yet, while the other request linked a1 to the same child
C28_Witness ==
    /\ slots[1].pc = "delete" /\ slots[1].uid = "a2" /\ slots[1].id = ActHex[1]
    /\ Stored(ActHex[1])
    /\ Teardown(2) /\ slots[2].op = "link-supervisor" /\ slots[2].status = 200
    /\ slots[2].data = [supervisor_id |-> "a1"]
    /\ children[ObjectId("c1")]["supervisor_ids"] = <<ObjectId("a2"), ObjectId("a1")>>


\* request r has answered a delete-activity request
Deleted(r, status) ==
    Teardown(r) /\ slots[r].op = "delete-activity" /\ slots[r].status = status

\* C29: of the authorized delete-activity requests for one activity that
\* run at the same time, one answers 200 and every other 404.  No two
\* requests answer 200 for the same id, none ends in a fault, and the
\* delete step of a request answers 200 and removes the activity it names
\* when that is still stored, and answers 404 "not found or already
\* deleted" and removes nothing when the other request was first.
C29_OneSuccess ==
    \A r, x \in DOMAIN slots :
        /\ slots[r].op = "delete-activity" /\ Teardown(r)
              => slots[r].status \in {200, 401, 403, 404}
        /\ Deleted(r, 200) /\ Deleted(x, 200) /\ slots[r].id = slots[x].id => r = x
        /\ Deleted(r, 200) => ~Stored(slots[r].id)

C29_DeleteStep ==
    \A r \in DOMAIN slots :
        slots[r].pc = "delete" /\ slots'[r].pc # "delete" =>
            IF Stored(slots[r].id)
            THEN /\ Deleted(r, 200)'
                 /\ Removed = {ObjectId(slots[r].id)}
            ELSE /\ Deleted(r, 404)'
                 /\ slots'[r].body = Msg("not found or already deleted")
                 /\ Removed = {}

C29_ConcurrentDeletes == [](C29_OneSuccess) /\ [][C29_DeleteStep]_vars

\* two requests of the teacher passed the check for the same activity; the
\* first to delete answered 200, the other 404
C29_Witness ==
    /\ Deleted(1, 200) /\ Deleted(2, 404)
    /\ slots[1].id = ActHex[1] /\ slots[2].id = ActHex[1]
    /\ slots[2].body = Msg("not found or already deleted")
    /\ slots[1].uid = "a2" /\ slots[2].uid = "a2"

====
